---- MODULE Spec2Model ----
(***************************************************************************)
(* FamilyVault: the access-request / share-grant state machine and its     *)
(* authorization gate, as implemented by the route handlers and lib        *)
(* functions.  Every handler is a sequence of awaited database calls; one  *)
(* action of this module is one awaited call together with the            *)
(* synchronous code that follows it up to the next await.  Handlers of     *)
(* different HTTP requests interleave at the awaits.                       *)
(***************************************************************************)
EXTENDS Integers, Sequences, FiniteSets, TLC

VARIABLES users, items, requests, grants, audit, now, proc, calls, client, twin,
          files

vars ==
  <<users, items, requests, grants, audit, now, proc, calls, client, twin,
    files>>

(***************************************************************************)
(* Bounds of the model.                                                    *)
(***************************************************************************)
\* handler invocations in one run of the concurrent specification
MaxCalls == 3
\* handler invocations in one run of the sequential specifications
MaxSeqCalls == 3
\* handler invocations in one run of the owner/requester specification
MaxPairCalls == 5
\* last value of the wall clock (one unit is one hour)
MaxClock == 1
\* calls started in a run of SpecGrants
MaxGrantCalls == 5
\* calls started in a run of SpecRevoke
MaxRevokeCalls == 3
\* calls started in a run of SpecAdmin
MaxAdminCalls == 3
\* calls started in a run of SpecSignup
MaxSignupCalls == 3
\* calls started in a run of SpecFamily
MaxFamilyCalls == 2
\* calls started in a run of SpecAudit
MaxAuditCalls == 3
\* calls started in a run of SpecAuthz
MaxAuthzCalls == 1
\* calls started in a run of SpecFiles
MaxFileCalls == 2
\* publish-grants calls per run of SpecPublish
MaxPublishCalls == 2

(***************************************************************************)
(* Program constants.                                                      *)
(***************************************************************************)
\* const grantExpiresAt = new Date(now.getTime() + 60 * 60 * 1000), in hours
GrantLifetime == 1
\* a DateTime? column holding NULL
NullTime == -1
\* a String? foreign key holding NULL (ShareGrant.requestId)
NullId == 0

Users == {"u1", "u2", "u3"}
ItemIds == {"i1", "i2", "i3"}
\* an item id that names no row
MissingItem == "i0"
Procs == {"p1", "p2"}
Null == "null"
Reasons == {Null, "r1"}
Notes == {Null, "n1"}
WrappedKeys == {"k1", "k2"}
\* body.expiresAt of an approve call, in hours of the model's clock
ClientExpiries == {0, 7}

NoRequest ==
  [itemId |-> Null, requesterUserId |-> Null, ownerUserId |-> Null,
   reason |-> Null, status |-> Null, createdAt |-> NullTime,
   decidedAt |-> NullTime, expiresAt |-> NullTime, decisionNote |-> Null]

NoItem ==
  [exists |-> FALSE, ownerUserId |-> Null, visibility |-> Null,
   requestable |-> FALSE, title |-> <<>>, url |-> <<>>,
   wrappedItemKey |-> Null, encryptedPayload |-> Null, cryptoMeta |-> Null]

Idle ==
  [pc |-> "idle", op |-> "none", caller |-> Null, item |-> Null, rid |-> NullId,
   inp |-> Null, exp |-> NullTime, target |-> Null, entries |-> <<>>,
   t |-> NullTime, code |-> 0, isNew |-> FALSE,
   rec |-> NoRequest, list |-> {}, order |-> <<>>, st |-> Null,
   priv |-> Null, query |-> <<>>, rows |-> {}, wrote |-> FALSE,
   file |-> Null, fileOwner |-> Null]

(***************************************************************************)
(* lib/authz.ts                                                            *)
(***************************************************************************)
\* the status code requireUser throws with, 0 when it returns the user
requireUser(u) ==
  IF users[u].exists THEN 0 ELSE 404

requireActiveUser(u) ==
  IF requireUser(u) # 0 THEN requireUser(u)
  ELSE IF users[u].status # "ACTIVE" THEN 403
  ELSE 0

\* variant that admits every ACTIVE account, whatever its role
requireAdminUser_AnyActiveUser(u) ==
  IF requireUser(u) # 0 THEN requireUser(u)
  ELSE IF users[u].status # "ACTIVE" THEN 403
  ELSE 0

\* variant that answers a missing user with 403 as well
requireAdminUser_MissingIsForbidden(u) ==
  IF requireUser(u) # 0 THEN 403
  ELSE IF users[u].status # "ACTIVE" \/ users[u].role # "ADMIN" THEN 403
  ELSE 0

requireAdminUser(u) ==
  IF requireUser(u) # 0 THEN requireUser(u)
  ELSE IF users[u].status # "ACTIVE" \/ users[u].role # "ADMIN" THEN 403
  ELSE 0

(***************************************************************************)
(* The store's uniqueness constraints.                                     *)
(***************************************************************************)
\* the index declared without @@unique
AccessRequestUnique_NotEnforced(reqs) == TRUE

\* @@unique([requesterUserId, itemId, status]) of model AccessRequest
AccessRequestUnique(reqs) ==
  \A a, b \in 1..Len(reqs) :
    a # b => ~(/\ reqs[a].requesterUserId = reqs[b].requesterUserId
               /\ reqs[a].itemId = reqs[b].itemId
               /\ reqs[a].status = reqs[b].status)

\* ShareGrant.requestId is unique among the grants that have one
ShareGrantUnique(gs) ==
  \A a, b \in 1..Len(gs) :
    (a # b /\ gs[a].requestId # NullId) => gs[a].requestId # gs[b].requestId

(***************************************************************************)
(* Handler plumbing: a slot holds the handler of one HTTP request.         *)
(***************************************************************************)
LowerSlot(p, q) == p = "p1"

\* a free slot takes the handler of a new HTTP request by caller u
Begin(p, budget, o, u, first, fields) ==
  /\ proc[p].pc \in {"idle", "done"}
  /\ \A q \in Procs : (q # p /\ proc[q].pc \in {"idle", "done"}) => LowerSlot(p, q)
  /\ calls < budget
  /\ calls' = calls + 1
  /\ proc' = [proc EXCEPT ![p] =
       [fields EXCEPT !.pc = first, !.op = o, !.caller = u,
                      !.st = users[u].status]]
  /\ UNCHANGED <<users, items, client, twin, files, requests, grants, audit, now>>

\* the handler returns NextResponse.json(..., {status: c})
Respond(p, c) ==
  [proc[p] EXCEPT !.pc = "done", !.code = c]

At(p, o, s) == proc[p].op = o /\ proc[p].pc = s

\* variant with a sweeper that marks requests whose expiresAt has passed
Tick_MarksExpired ==
  /\ now < MaxClock
  /\ now' = now + 1
  /\ requests' = [r \in 1..Len(requests) |->
       IF requests[r].expiresAt # NullTime /\ requests[r].expiresAt <= now'
       THEN [requests[r] EXCEPT !.status = "EXPIRED"]
       ELSE requests[r]]
  /\ UNCHANGED <<users, items, client, twin, files, grants, audit, proc, calls>>

Tick ==
  /\ now < MaxClock
  /\ now' = now + 1
  /\ UNCHANGED <<users, items, client, twin, files, requests, grants, audit, proc, calls>>

AuditEvent(actor, type, targetType, targetId) ==
  [actorUserId |-> actor, eventType |-> type, targetType |-> targetType,
   targetId |-> targetId]

(***************************************************************************)
(* lib/authz.ts applied to a user id                                       *)
(***************************************************************************)
\* a caller of lib/authz.ts applies one of the three predicates to a user id
AuthzBegin(p, budget, o, u) ==
  Begin(p, budget, o, u, "check", Idle)

\* the predicate throws AccessDeniedError with a status code, or returns the
\* user (code 0)
AuthzCheck(p) ==
  /\ proc[p].pc = "check"
  /\ proc' = [proc EXCEPT ![p] =
       Respond(p, CASE proc[p].op = "requireUser" ->
                         requireUser(proc[p].caller)
                    [] proc[p].op = "requireActiveUser" ->
                         requireActiveUser(proc[p].caller)
                    [] OTHER -> requireAdminUser(proc[p].caller))]
  /\ UNCHANGED <<users, items, client, twin, files, requests, grants, audit, now, calls>>

(***************************************************************************)
(* POST /api/requests: createAccessRequestForUser and its route            *)
(***************************************************************************)
\* the validations of createAccessRequestForUser on the item it read
createItemChecks(u, i) ==
  IF ~items[i].exists THEN 404
  ELSE IF items[i].ownerUserId = u THEN 400
  ELSE IF users[items[i].ownerUserId].status # "ACTIVE" THEN 403
  ELSE IF items[i].visibility # "FAMILY_METADATA" THEN 403
  ELSE IF ~items[i].requestable THEN 403
  ELSE 0

\* the lookup without its requesterUserId filter
existingPending_AnyRequester(u, i) ==
  {r \in 1..Len(requests) :
     requests[r].itemId = i /\ requests[r].status = "PENDING"}

\* prisma.accessRequest.findFirst({itemId, requesterUserId, status: PENDING})
existingPending(u, i) ==
  {r \in 1..Len(requests) :
     /\ requests[r].itemId = i
     /\ requests[r].requesterUserId = u
     /\ requests[r].status = "PENDING"}

\* variant that names the requester as the owner
NewRequest_OwnerIsRequester(u, i, reason) ==
  [NoRequest EXCEPT !.itemId = i, !.requesterUserId = u,
                    !.ownerUserId = u,
                    !.reason = reason, !.status = "PENDING",
                    !.createdAt = now]

NewRequest(u, i, reason) ==
  [NoRequest EXCEPT !.itemId = i, !.requesterUserId = u,
                    !.ownerUserId = items[i].ownerUserId,
                    !.reason = reason, !.status = "PENDING",
                    !.createdAt = now]

CreateBegin(p, budget, u, i, reason) ==
  Begin(p, budget, "create", u, "auth",
        [Idle EXCEPT !.item = i, !.inp = reason])

\* await requireActiveUser(userId)
CreateAuth(p) ==
  /\ At(p, "create", "auth")
  /\ proc' = [proc EXCEPT ![p] =
       IF requireActiveUser(proc[p].caller) # 0
       THEN Respond(p, requireActiveUser(proc[p].caller))
       ELSE [proc[p] EXCEPT !.pc = "item"]]
  /\ UNCHANGED <<users, items, client, twin, files, requests, grants, audit, now, calls>>

\* await prisma.vaultItem.findUnique(...) and the checks on the item
CreateItem(p) ==
  /\ At(p, "create", "item")
  /\ proc' = [proc EXCEPT ![p] =
       IF createItemChecks(proc[p].caller, proc[p].item) # 0
       THEN Respond(p, createItemChecks(proc[p].caller, proc[p].item))
       ELSE [proc[p] EXCEPT !.pc = "lookup"]]
  /\ UNCHANGED <<users, items, client, twin, files, requests, grants, audit, now, calls>>

\* await prisma.accessRequest.findFirst(...); an existing row is returned
CreateLookup(p) ==
  /\ At(p, "create", "lookup")
  /\ IF existingPending(proc[p].caller, proc[p].item) # {}
     THEN \E r \in existingPending(proc[p].caller, proc[p].item) :
            proc' = [proc EXCEPT ![p] =
              [Respond(p, 200) EXCEPT !.rid = r, !.rec = requests[r],
                                      !.isNew = FALSE]]
     ELSE proc' = [proc EXCEPT ![p] = [proc[p] EXCEPT !.pc = "insert"]]
  /\ UNCHANGED <<users, items, client, twin, files, requests, grants, audit, now, calls>>

\* await prisma.accessRequest.create(...); a constraint violation is thrown
\* and answered 500 by the route's catch block
CreateInsert(p) ==
  /\ At(p, "create", "insert")
  /\ LET new == NewRequest(proc[p].caller, proc[p].item, proc[p].inp) IN
     IF AccessRequestUnique(Append(requests, new))
     THEN /\ requests' = Append(requests, new)
          /\ proc' = [proc EXCEPT ![p] =
               [proc[p] EXCEPT !.pc = "audit", !.rid = Len(requests) + 1,
                               !.rec = new, !.isNew = TRUE, !.wrote = TRUE]]
     ELSE /\ requests' = requests
          /\ proc' = [proc EXCEPT ![p] = Respond(p, 500)]
  /\ UNCHANGED <<users, items, client, twin, files, grants, audit, now, calls>>

\* if (isNew) await prisma.auditEvent.create(REQUEST_CREATED); status 201
CreateAudit(p) ==
  /\ At(p, "create", "audit")
  /\ audit' = audit \cup
       {AuditEvent(proc[p].caller, "REQUEST_CREATED", "ACCESS_REQUEST",
                   proc[p].rid)}
  /\ proc' = [proc EXCEPT ![p] = Respond(p, 201)]
  /\ UNCHANGED <<users, items, client, twin, files, requests, grants, now, calls>>

(***************************************************************************)
(* The route-level create handler that carries its own validations         *)
(***************************************************************************)
\* the validations of the route on the item it read
legacyItemChecks(u, i) ==
  IF ~items[i].exists THEN 404
  ELSE IF items[i].ownerUserId = u THEN 400
  ELSE IF items[i].visibility # "FAMILY_METADATA" THEN 403
  ELSE IF ~items[i].requestable THEN 403
  ELSE 0

LegacyCreateBegin(p, budget, u, i, reason) ==
  Begin(p, budget, "createLegacy", u, "item",
        [Idle EXCEPT !.item = i, !.inp = reason])

\* await prisma.vaultItem.findUnique(...) and the checks on the item
LegacyCreateItem(p) ==
  /\ At(p, "createLegacy", "item")
  /\ proc' = [proc EXCEPT ![p] =
       IF legacyItemChecks(proc[p].caller, proc[p].item) # 0
       THEN Respond(p, legacyItemChecks(proc[p].caller, proc[p].item))
       ELSE [proc[p] EXCEPT !.pc = "lookup"]]
  /\ UNCHANGED <<users, items, client, twin, files, requests, grants, audit, now, calls>>

\* await prisma.accessRequest.findFirst(...); an existing row is returned
LegacyCreateLookup(p) ==
  /\ At(p, "createLegacy", "lookup")
  /\ IF existingPending(proc[p].caller, proc[p].item) # {}
     THEN \E r \in existingPending(proc[p].caller, proc[p].item) :
            proc' = [proc EXCEPT ![p] =
              [Respond(p, 200) EXCEPT !.rid = r, !.rec = requests[r],
                                      !.isNew = FALSE]]
     ELSE proc' = [proc EXCEPT ![p] = [proc[p] EXCEPT !.pc = "insert"]]
  /\ UNCHANGED <<users, items, client, twin, files, requests, grants, audit, now, calls>>

\* await prisma.accessRequest.create(...); a throw is answered 500
LegacyCreateInsert(p) ==
  /\ At(p, "createLegacy", "insert")
  /\ LET new == NewRequest(proc[p].caller, proc[p].item, proc[p].inp) IN
     IF AccessRequestUnique(Append(requests, new))
     THEN /\ requests' = Append(requests, new)
          /\ proc' = [proc EXCEPT ![p] =
               [proc[p] EXCEPT !.pc = "audit", !.rid = Len(requests) + 1,
                               !.rec = new, !.isNew = TRUE, !.wrote = TRUE]]
     ELSE /\ requests' = requests
          /\ proc' = [proc EXCEPT ![p] = Respond(p, 500)]
  /\ UNCHANGED <<users, items, client, twin, files, grants, audit, now, calls>>

\* await prisma.auditEvent.create(REQUEST_CREATED); status 201
LegacyCreateAudit(p) ==
  /\ At(p, "createLegacy", "audit")
  /\ audit' = audit \cup
       {AuditEvent(proc[p].caller, "REQUEST_CREATED", "ACCESS_REQUEST",
                   proc[p].rid)}
  /\ proc' = [proc EXCEPT ![p] = Respond(p, 201)]
  /\ UNCHANGED <<users, items, client, twin, files, requests, grants, now, calls>>

(***************************************************************************)
(* POST /api/requests/:id/approve                                          *)
(***************************************************************************)
Exists(r) == r \in 1..Len(requests)

\* the grant included with the fetched request (accessRequest.grant)
grantOf(r) == {g \in 1..Len(grants) : grants[g].requestId = r}

\* the approve route without its ownership check
approveChecks_NoOwnerCheck(u, r) ==
  IF ~Exists(r) THEN 404
  ELSE IF requests[r].status # "PENDING" THEN 400
  ELSE IF users[requests[r].requesterUserId].status # "ACTIVE" THEN 403
  ELSE IF users[requests[r].requesterUserId].publicKey = Null THEN 400
  ELSE IF grantOf(r) # {} THEN 400
  ELSE 0

\* the approve route without its check of the requester's status
approveChecks_NoRequesterStatus(u, r) ==
  IF ~Exists(r) THEN 404
  ELSE IF requests[r].ownerUserId # u THEN 403
  ELSE IF requests[r].status # "PENDING" THEN 400
  ELSE IF users[requests[r].requesterUserId].publicKey = Null THEN 400
  ELSE IF grantOf(r) # {} THEN 400
  ELSE 0

\* the validations of the approve route on the request it read
approveChecks(u, r) ==
  IF ~Exists(r) THEN 404
  ELSE IF requests[r].ownerUserId # u THEN 403
  ELSE IF requests[r].status # "PENDING" THEN 400
  ELSE IF users[requests[r].requesterUserId].status # "ACTIVE" THEN 403
  ELSE IF users[requests[r].requesterUserId].publicKey = Null THEN 400
  ELSE IF grantOf(r) # {} THEN 400
  ELSE 0

\* the grant insert of approve with the two user columns exchanged
NewGrant_FromRequester(rec, r, key, t) ==
  [itemId |-> rec.itemId, fromUserId |-> rec.requesterUserId,
   toUserId |-> rec.ownerUserId, requestId |-> r,
   wrappedItemKeyForRecipient |-> key, createdAt |-> now,
   expiresAt |-> t + GrantLifetime, revokedAt |-> NullTime]

NewGrant(rec, r, key, t) ==
  [itemId |-> rec.itemId, fromUserId |-> rec.ownerUserId,
   toUserId |-> rec.requesterUserId, requestId |-> r,
   wrappedItemKeyForRecipient |-> key, createdAt |-> now,
   expiresAt |-> t + GrantLifetime, revokedAt |-> NullTime]

\* prisma.$transaction: the request update and the grant insert commit
\* together, or a throw of either rolls both back
approveTransaction(rec, r, key, t) ==
  LET upd == [requests EXCEPT ![r] =
                [@ EXCEPT !.status = "APPROVED", !.decidedAt = t,
                          !.expiresAt = t + GrantLifetime]]
      gs == Append(grants, NewGrant(rec, r, key, t))
  IN IF AccessRequestUnique(upd) /\ ShareGrantUnique(gs)
     THEN [ok |-> TRUE, requests |-> upd, grants |-> gs]
     ELSE [ok |-> FALSE, requests |-> requests, grants |-> grants]

ApproveBegin(p, budget, u, r, key, expiresAt) ==
  Begin(p, budget, "approve", u, "auth",
        [Idle EXCEPT !.rid = r, !.inp = key, !.exp = expiresAt])

\* await requireActiveUser(session.userId)
ApproveAuth(p) ==
  /\ At(p, "approve", "auth")
  /\ proc' = [proc EXCEPT ![p] =
       IF requireActiveUser(proc[p].caller) # 0
       THEN Respond(p, requireActiveUser(proc[p].caller))
       ELSE [proc[p] EXCEPT !.pc = "fetch"]]
  /\ UNCHANGED <<users, items, client, twin, files, requests, grants, audit, now, calls>>

\* await prisma.accessRequest.findUnique(...), the checks, const now
ApproveFetch(p) ==
  /\ At(p, "approve", "fetch")
  /\ proc' = [proc EXCEPT ![p] =
       IF approveChecks(proc[p].caller, proc[p].rid) # 0
       THEN Respond(p, approveChecks(proc[p].caller, proc[p].rid))
       ELSE [proc[p] EXCEPT !.pc = "commit", !.t = now,
                            !.rec = requests[proc[p].rid]]]
  /\ UNCHANGED <<users, items, client, twin, files, requests, grants, audit, now, calls>>

\* await prisma.$transaction(...); a throw is answered 500
ApproveCommit(p) ==
  /\ At(p, "approve", "commit")
  /\ LET tx == approveTransaction(proc[p].rec, proc[p].rid, proc[p].inp,
                                  proc[p].t) IN
     /\ requests' = tx.requests
     /\ grants' = tx.grants
     /\ proc' = [proc EXCEPT ![p] =
          IF tx.ok
          THEN [proc[p] EXCEPT !.pc = "audit", !.wrote = TRUE,
                               !.rec = tx.requests[proc[p].rid]]
          ELSE Respond(p, 500)]
  /\ UNCHANGED <<users, items, client, twin, files, audit, now, calls>>

\* await prisma.auditEvent.create(REQUEST_APPROVED)
ApproveAudit(p) ==
  /\ At(p, "approve", "audit")
  /\ audit' = audit \cup
       {AuditEvent(proc[p].caller, "REQUEST_APPROVED", "ACCESS_REQUEST",
                   proc[p].rid)}
  /\ proc' = [proc EXCEPT ![p] = [proc[p] EXCEPT !.pc = "audit2"]]
  /\ UNCHANGED <<users, items, client, twin, files, requests, grants, now, calls>>

\* await prisma.auditEvent.create(GRANT_CREATED); status 200
ApproveAuditGrant(p) ==
  /\ At(p, "approve", "audit2")
  /\ audit' = audit \cup
       {AuditEvent(proc[p].caller, "GRANT_CREATED", "SHARE_GRANT",
                   CHOOSE g \in grantOf(proc[p].rid) : TRUE)}
  /\ proc' = [proc EXCEPT ![p] = Respond(p, 200)]
  /\ UNCHANGED <<users, items, client, twin, files, requests, grants, now, calls>>

(***************************************************************************)
(* POST /api/requests/:id/deny                                             *)
(***************************************************************************)
\* the validations of the deny route on the request it read
denyChecks(u, r) ==
  IF ~Exists(r) THEN 404
  ELSE IF requests[r].ownerUserId # u THEN 403
  ELSE IF requests[r].status # "PENDING" THEN 400
  ELSE 0

\* prisma.accessRequest.update({where: {id}, data: {status: DENIED, ...}})
\* variant whose update also stamps expiresAt
denyUpdate_AlsoExpires(r, note, t) ==
  [requests EXCEPT ![r] =
     [@ EXCEPT !.status = "DENIED", !.decidedAt = t, !.decisionNote = note,
               !.expiresAt = t]]

denyUpdate(r, note, t) ==
  [requests EXCEPT ![r] =
     [@ EXCEPT !.status = "DENIED", !.decidedAt = t, !.decisionNote = note]]

DenyBegin(p, budget, u, r, note) ==
  Begin(p, budget, "deny", u, "auth",
        [Idle EXCEPT !.rid = r, !.inp = note])

\* await requireActiveUser(session.userId)
DenyAuth(p) ==
  /\ At(p, "deny", "auth")
  /\ proc' = [proc EXCEPT ![p] =
       IF requireActiveUser(proc[p].caller) # 0
       THEN Respond(p, requireActiveUser(proc[p].caller))
       ELSE [proc[p] EXCEPT !.pc = "fetch"]]
  /\ UNCHANGED <<users, items, client, twin, files, requests, grants, audit, now, calls>>

\* await prisma.accessRequest.findUnique(...), the checks, new Date()
DenyFetch(p) ==
  /\ At(p, "deny", "fetch")
  /\ proc' = [proc EXCEPT ![p] =
       IF denyChecks(proc[p].caller, proc[p].rid) # 0
       THEN Respond(p, denyChecks(proc[p].caller, proc[p].rid))
       ELSE [proc[p] EXCEPT !.pc = "commit", !.t = now,
                            !.rec = requests[proc[p].rid]]]
  /\ UNCHANGED <<users, items, client, twin, files, requests, grants, audit, now, calls>>

\* await prisma.accessRequest.update(...); a throw is answered 500
DenyCommit(p) ==
  /\ At(p, "deny", "commit")
  /\ LET upd == denyUpdate(proc[p].rid, proc[p].inp, proc[p].t) IN
     IF AccessRequestUnique(upd)
     THEN /\ requests' = upd
          /\ proc' = [proc EXCEPT ![p] =
               [proc[p] EXCEPT !.pc = "audit", !.wrote = TRUE,
                               !.rec = upd[proc[p].rid]]]
     ELSE /\ requests' = requests
          /\ proc' = [proc EXCEPT ![p] = Respond(p, 500)]
  /\ UNCHANGED <<users, items, client, twin, files, grants, audit, now, calls>>

\* await prisma.auditEvent.create(REQUEST_DENIED); status 200
DenyAudit(p) ==
  /\ At(p, "deny", "audit")
  /\ audit' = audit \cup
       {AuditEvent(proc[p].caller, "REQUEST_DENIED", "ACCESS_REQUEST",
                   proc[p].rid)}
  /\ proc' = [proc EXCEPT ![p] = Respond(p, 200)]
  /\ UNCHANGED <<users, items, client, twin, files, requests, grants, now, calls>>

(***************************************************************************)
(* POST /api/requests/:id/cancel                                           *)
(***************************************************************************)
\* the validations of the cancel route on the request it read
cancelChecks(u, r) ==
  IF ~Exists(r) THEN 404
  ELSE IF requests[r].requesterUserId # u THEN 403
  ELSE IF requests[r].status # "PENDING" THEN 400
  ELSE 0

\* prisma.accessRequest.update({where: {id}, data: {status: CANCELLED, ...}})
cancelUpdate(r, t) ==
  [requests EXCEPT ![r] =
     [@ EXCEPT !.status = "CANCELLED", !.decidedAt = t]]

CancelBegin(p, budget, u, r) ==
  Begin(p, budget, "cancel", u, "auth", [Idle EXCEPT !.rid = r])

\* await requireActiveUser(session.userId)
CancelAuth(p) ==
  /\ At(p, "cancel", "auth")
  /\ proc' = [proc EXCEPT ![p] =
       IF requireActiveUser(proc[p].caller) # 0
       THEN Respond(p, requireActiveUser(proc[p].caller))
       ELSE [proc[p] EXCEPT !.pc = "fetch"]]
  /\ UNCHANGED <<users, items, client, twin, files, requests, grants, audit, now, calls>>

\* await prisma.accessRequest.findUnique(...), the checks, new Date()
CancelFetch(p) ==
  /\ At(p, "cancel", "fetch")
  /\ proc' = [proc EXCEPT ![p] =
       IF cancelChecks(proc[p].caller, proc[p].rid) # 0
       THEN Respond(p, cancelChecks(proc[p].caller, proc[p].rid))
       ELSE [proc[p] EXCEPT !.pc = "commit", !.t = now,
                            !.rec = requests[proc[p].rid]]]
  /\ UNCHANGED <<users, items, client, twin, files, requests, grants, audit, now, calls>>

\* await prisma.accessRequest.update(...); a throw is answered 500
CancelCommit(p) ==
  /\ At(p, "cancel", "commit")
  /\ LET upd == cancelUpdate(proc[p].rid, proc[p].t) IN
     IF AccessRequestUnique(upd)
     THEN /\ requests' = upd
          /\ proc' = [proc EXCEPT ![p] =
               [proc[p] EXCEPT !.pc = "audit", !.wrote = TRUE,
                               !.rec = upd[proc[p].rid]]]
     ELSE /\ requests' = requests
          /\ proc' = [proc EXCEPT ![p] = Respond(p, 500)]
  /\ UNCHANGED <<users, items, client, twin, files, grants, audit, now, calls>>

\* await prisma.auditEvent.create(REQUEST_CANCELLED); status 200
CancelAudit(p) ==
  /\ At(p, "cancel", "audit")
  /\ audit' = audit \cup
       {AuditEvent(proc[p].caller, "REQUEST_CANCELLED", "ACCESS_REQUEST",
                   proc[p].rid)}
  /\ proc' = [proc EXCEPT ![p] = Respond(p, 200)]
  /\ UNCHANGED <<users, items, client, twin, files, requests, grants, now, calls>>

(***************************************************************************)
(* GET /api/requests/incoming and GET /api/requests (outgoing)             *)
(***************************************************************************)
ListIncomingBegin(p, budget, u) ==
  Begin(p, budget, "listIncoming", u, "query", Idle)

\* await prisma.accessRequest.findMany({where: {ownerUserId}}); status 200
ListIncomingQuery(p) ==
  /\ At(p, "listIncoming", "query")
  /\ proc' = [proc EXCEPT ![p] =
       [Respond(p, 200) EXCEPT !.list =
          {r \in 1..Len(requests) :
             requests[r].ownerUserId = proc[p].caller}]]
  /\ UNCHANGED <<users, items, client, twin, files, requests, grants, audit, now, calls>>

ListOutgoingBegin(p, budget, u) ==
  Begin(p, budget, "listOutgoing", u, "auth", Idle)

\* await requireActiveUser(session.userId)
ListOutgoingAuth(p) ==
  /\ At(p, "listOutgoing", "auth")
  /\ proc' = [proc EXCEPT ![p] =
       IF requireActiveUser(proc[p].caller) # 0
       THEN Respond(p, requireActiveUser(proc[p].caller))
       ELSE [proc[p] EXCEPT !.pc = "query"]]
  /\ UNCHANGED <<users, items, client, twin, files, requests, grants, audit, now, calls>>

\* await prisma.accessRequest.findMany({where: {requesterUserId}})
ListOutgoingQuery(p) ==
  /\ At(p, "listOutgoing", "query")
  /\ proc' = [proc EXCEPT ![p] =
       [Respond(p, 200) EXCEPT !.list =
          {r \in 1..Len(requests) :
             requests[r].requesterUserId = proc[p].caller}]]
  /\ UNCHANGED <<users, items, client, twin, files, requests, grants, audit, now, calls>>

(***************************************************************************)
(* GET /api/family/items: listFamilyItemsForUser, and the route that       *)
(* queries the store itself                                                *)
(***************************************************************************)
\* the where clause of listFamilyItemsForUser with an empty query
familyItems(u) ==
  {i \in ItemIds :
     /\ items[i].exists
     /\ \/ items[i].ownerUserId = u
        \/ /\ items[i].ownerUserId # u
           /\ items[i].visibility = "FAMILY_METADATA"
           /\ users[items[i].ownerUserId].status = "ACTIVE"}

\* the where clause of the route that queries the store itself
legacyFamilyItems(u) ==
  {i \in ItemIds :
     /\ items[i].exists
     /\ \/ items[i].ownerUserId = u
        \/ /\ items[i].ownerUserId # u
           /\ items[i].visibility = "FAMILY_METADATA"}

\* the fields of a row that a select clause keeps
selected(row, fields) == [f \in fields \cap DOMAIN row |-> row[f]]

\* select of the two family listings: the columns set to true, of which the
\* model carries these
familySelect ==
  {"title", "url", "visibility", "requestable", "ownerUserId"}

\* case folding of a text over the alphabet used in titles, urls and queries
toLower(text) ==
  [k \in 1..Len(text) |->
     CASE text[k] = "P" -> "p"
       [] text[k] = "N" -> "n"
       [] text[k] = "X" -> "x"
       [] OTHER -> text[k]]

\* {contains: query, mode: 'insensitive'}
contains(text, query) ==
  \E k \in 0..(Len(text) - Len(query)) :
    SubSeq(toLower(text), k + 1, k + Len(query)) = toLower(query)

searchMatches(query) ==
  {i \in ItemIds :
     /\ items[i].exists
     /\ contains(items[i].title, query) \/ contains(items[i].url, query)}

\* the where object of listFamilyItemsForUser: the spread of the search
\* filter carries a second OR key, which replaces the ownership and
\* visibility OR written before it
familyWhere(u, query) ==
  IF query # <<>> THEN searchMatches(query) ELSE familyItems(u)

\* the where object of the route that queries the store itself, built the
\* same way
legacyFamilyWhere(u, query) ==
  IF query # <<>> THEN searchMatches(query) ELSE legacyFamilyItems(u)

ListFamilyBegin(p, budget, u, query) ==
  Begin(p, budget, "listFamily", u, "auth", [Idle EXCEPT !.query = query])

\* await requireActiveUser(userId)
ListFamilyAuth(p) ==
  /\ At(p, "listFamily", "auth")
  /\ proc' = [proc EXCEPT ![p] =
       IF requireActiveUser(proc[p].caller) # 0
       THEN Respond(p, requireActiveUser(proc[p].caller))
       ELSE [proc[p] EXCEPT !.pc = "query"]]
  /\ UNCHANGED <<users, items, client, twin, files, requests, grants, audit, now, calls>>

\* await prisma.vaultItem.findMany(...); status 200
ListFamilyQuery(p) ==
  /\ At(p, "listFamily", "query")
  /\ proc' = [proc EXCEPT ![p] =
       [Respond(p, 200) EXCEPT
          !.list = familyWhere(proc[p].caller, proc[p].query),
          !.rows = {selected(items[i], familySelect) :
                      i \in familyWhere(proc[p].caller, proc[p].query)}]]
  /\ UNCHANGED <<users, items, client, twin, files, requests, grants, audit, now, calls>>

LegacyListFamilyBegin(p, budget, u, query) ==
  Begin(p, budget, "listFamilyLegacy", u, "query",
        [Idle EXCEPT !.query = query])

\* await prisma.vaultItem.findMany(...); status 200
LegacyListFamilyQuery(p) ==
  /\ At(p, "listFamilyLegacy", "query")
  /\ proc' = [proc EXCEPT ![p] =
       [Respond(p, 200) EXCEPT
          !.list = legacyFamilyWhere(proc[p].caller, proc[p].query),
          !.rows = {selected(items[i], familySelect) :
                      i \in legacyFamilyWhere(proc[p].caller, proc[p].query)}]]
  /\ UNCHANGED <<users, items, client, twin, files, requests, grants, audit, now, calls>>

(***************************************************************************)
(* GET /api/grants: listActiveGrantsForUser                                *)
(***************************************************************************)
\* the where clause without revokedAt: null
activeGrants_IgnoresRevocation(u) ==
  {g \in 1..Len(grants) :
     /\ grants[g].toUserId = u
     /\ grants[g].expiresAt > now}

\* the where clause with gte in place of gt
activeGrants_NotYetPastExpiry(u) ==
  {g \in 1..Len(grants) :
     /\ grants[g].toUserId = u
     /\ grants[g].revokedAt = NullTime
     /\ grants[g].expiresAt >= now}

\* where: {toUserId: userId, revokedAt: null, expiresAt: {gt: new Date()}}
activeGrants(u) ==
  {g \in 1..Len(grants) :
     /\ grants[g].toUserId = u
     /\ grants[g].revokedAt = NullTime
     /\ grants[g].expiresAt > now}

\* orderBy: [{expiresAt: 'asc'}]: the rows of S in an order the store may
\* return them in; rows of equal expiresAt come in either order
ascendingByExpiresAt(S) ==
  {sq \in [1..Cardinality(S) -> S] :
     /\ \A i, j \in 1..Cardinality(S) : i # j => sq[i] # sq[j]
     /\ \A i, j \in 1..Cardinality(S) :
          i < j => grants[sq[i]].expiresAt <= grants[sq[j]].expiresAt}

ListGrantsBegin(p, budget, u) ==
  Begin(p, budget, "listGrants", u, "auth", Idle)

\* await requireActiveUser(userId)
ListGrantsAuth(p) ==
  /\ At(p, "listGrants", "auth")
  /\ proc' = [proc EXCEPT ![p] =
       IF requireActiveUser(proc[p].caller) # 0
       THEN Respond(p, requireActiveUser(proc[p].caller))
       ELSE [proc[p] EXCEPT !.pc = "query"]]
  /\ UNCHANGED <<users, items, client, twin, files, requests, grants, audit, now, calls>>

\* variant whose nested item select also keeps the owner's wrapped key
grantItemSelect_WithOwnerKey ==
  {"title", "url", "encryptedPayload", "cryptoMeta", "wrappedItemKey"}

\* the nested select of the item of a listed grant
grantItemSelect ==
  {"title", "url", "encryptedPayload", "cryptoMeta"}

\* one entry of the listing: the selected columns of the grant with its item
grantEntry(g) ==
  [id |-> g,
   wrappedItemKeyForRecipient |-> grants[g].wrappedItemKeyForRecipient,
   expiresAt |-> grants[g].expiresAt, createdAt |-> grants[g].createdAt,
   item |-> selected(items[grants[g].itemId], grantItemSelect),
   fromUser |-> grants[g].fromUserId]

\* return prisma.shareGrant.findMany(...); status 200
ListGrantsQuery(p) ==
  /\ At(p, "listGrants", "query")
  /\ \E sq \in ascendingByExpiresAt(activeGrants(proc[p].caller)) :
       proc' = [proc EXCEPT ![p] =
         [Respond(p, 200) EXCEPT
            !.list = activeGrants(proc[p].caller),
            !.order = sq,
            !.rows = {grantEntry(g) : g \in activeGrants(proc[p].caller)}]]
  /\ UNCHANGED <<users, items, client, twin, files, requests, grants, audit, now, calls>>

(***************************************************************************)
(* POST /api/grants/:grantId/revoke: revokeGrantForUser and its route      *)
(***************************************************************************)
\* revokeGrantForUser without its check of the granter
revokeChecks_NoGranterCheck(u, g) ==
  IF g \notin 1..Len(grants) THEN 404
  ELSE IF grants[g].revokedAt # NullTime THEN 400
  ELSE 0

\* the validations of revokeGrantForUser on the grant it read
revokeChecks(u, g) ==
  IF g \notin 1..Len(grants) THEN 404
  ELSE IF grants[g].fromUserId # u THEN 403
  ELSE IF grants[g].revokedAt # NullTime THEN 400
  ELSE 0

\* a revoke that also ends the grant's lifetime
revokeUpdate_AlsoExpires(g, t) ==
  [grants EXCEPT ![g] = [@ EXCEPT !.revokedAt = t, !.expiresAt = t]]

\* prisma.shareGrant.update({where: {id}, data: {revokedAt: new Date()}})
revokeUpdate(g, t) ==
  [grants EXCEPT ![g] = [@ EXCEPT !.revokedAt = t]]

RevokeBegin(p, budget, u, g) ==
  Begin(p, budget, "revoke", u, "auth", [Idle EXCEPT !.rid = g])

\* await requireActiveUser(userId)
RevokeAuth(p) ==
  /\ At(p, "revoke", "auth")
  /\ proc' = [proc EXCEPT ![p] =
       IF requireActiveUser(proc[p].caller) # 0
       THEN Respond(p, requireActiveUser(proc[p].caller))
       ELSE [proc[p] EXCEPT !.pc = "fetch"]]
  /\ UNCHANGED <<users, items, client, twin, files, requests, grants, audit, now, calls>>

\* await prisma.shareGrant.findUnique(...), the checks, new Date()
RevokeFetch(p) ==
  /\ At(p, "revoke", "fetch")
  /\ proc' = [proc EXCEPT ![p] =
       IF revokeChecks(proc[p].caller, proc[p].rid) # 0
       THEN Respond(p, revokeChecks(proc[p].caller, proc[p].rid))
       ELSE [proc[p] EXCEPT !.pc = "commit", !.t = now]]
  /\ UNCHANGED <<users, items, client, twin, files, requests, grants, audit, now, calls>>

\* return prisma.shareGrant.update({data: {revokedAt: new Date()}})
RevokeCommit(p) ==
  /\ At(p, "revoke", "commit")
  /\ grants' = revokeUpdate(proc[p].rid, proc[p].t)
  /\ proc' = [proc EXCEPT ![p] =
       [proc[p] EXCEPT !.pc = "audit", !.wrote = TRUE]]
  /\ UNCHANGED <<users, items, client, twin, files, requests, audit, now, calls>>

\* await prisma.auditEvent.create(GRANT_REVOKED); status 200
RevokeAudit(p) ==
  /\ At(p, "revoke", "audit")
  /\ audit' = audit \cup
       {AuditEvent(proc[p].caller, "GRANT_REVOKED", "SHARE_GRANT",
                   proc[p].rid)}
  /\ proc' = [proc EXCEPT ![p] = Respond(p, 200)]
  /\ UNCHANGED <<users, items, client, twin, files, requests, grants, now, calls>>

(***************************************************************************)
(* POST /api/grants/:grantId/view: the recipient logs a view of the grant  *)
(***************************************************************************)
\* the validations of the view route on the grant it read
viewChecks(u, g) ==
  IF g \notin 1..Len(grants) THEN 404
  ELSE IF grants[g].toUserId # u THEN 403
  ELSE 0

ViewBegin(p, budget, u, g) ==
  Begin(p, budget, "view", u, "auth", [Idle EXCEPT !.rid = g])

\* await requireActiveUser(session.userId)
ViewAuth(p) ==
  /\ At(p, "view", "auth")
  /\ proc' = [proc EXCEPT ![p] =
       IF requireActiveUser(proc[p].caller) # 0
       THEN Respond(p, requireActiveUser(proc[p].caller))
       ELSE [proc[p] EXCEPT !.pc = "fetch"]]
  /\ UNCHANGED <<users, items, client, twin, files, requests, grants, audit, now, calls>>

\* await prisma.shareGrant.findUnique(...) and the checks
ViewFetch(p) ==
  /\ At(p, "view", "fetch")
  /\ proc' = [proc EXCEPT ![p] =
       IF viewChecks(proc[p].caller, proc[p].rid) # 0
       THEN Respond(p, viewChecks(proc[p].caller, proc[p].rid))
       ELSE [proc[p] EXCEPT !.pc = "audit"]]
  /\ UNCHANGED <<users, items, client, twin, files, requests, grants, audit, now, calls>>

\* await prisma.auditEvent.create(SHARED_ITEM_VIEWED); status 200
ViewAudit(p) ==
  /\ At(p, "view", "audit")
  /\ audit' = audit \cup
       {AuditEvent(proc[p].caller, "SHARED_ITEM_VIEWED", "SHARE_GRANT",
                   proc[p].rid)}
  /\ proc' = [proc EXCEPT ![p] = Respond(p, 200)]
  /\ UNCHANGED <<users, items, client, twin, files, requests, grants, now, calls>>

(***************************************************************************)
(* POST /api/items/:itemId/grants: publish grants                          *)
(***************************************************************************)
\* const expiresAt = new Date(); expiresAt.setFullYear(+10), in hours
PublishLifetime == 87600

\* the validations of the publish route on the item it read
publishChecks(u, i) ==
  IF ~items[i].exists THEN 404
  ELSE IF items[i].ownerUserId # u THEN 403
  ELSE 0

\* one prisma.shareGrant.create of the transaction succeeds when the
\* entry names a recipient row and carries a wrapped key
entryInserts(e) == e.toUserId \in Users /\ users[e.toUserId].exists
                   /\ e.wrappedItemKey # Null

PublishedGrant(u, i, e, t) ==
  [itemId |-> i, fromUserId |-> u, toUserId |-> e.toUserId,
   requestId |-> NullId, wrappedItemKeyForRecipient |-> e.wrappedItemKey,
   createdAt |-> now, expiresAt |-> t + PublishLifetime,
   revokedAt |-> NullTime]

\* the alternative weighed in the route's comments: a grant that exists
\* for the recipient is updated in place, the others are created
publishTransaction_Upserts(u, i, es, t) ==
  LET held(e) == \E g \in 1..Len(grants) :
                   /\ grants[g].itemId = i /\ grants[g].fromUserId = u
                   /\ grants[g].toUserId = e.toUserId
      fresh(e) == ~held(e)
      upd == [g \in 1..Len(grants) |->
                IF /\ grants[g].itemId = i /\ grants[g].fromUserId = u
                   /\ \E k \in 1..Len(es) : es[k].toUserId = grants[g].toUserId
                THEN [grants[g] EXCEPT !.revokedAt = NullTime,
                                       !.expiresAt = t + PublishLifetime]
                ELSE grants[g]]
      new == SelectSeq(es, fresh)
  IN IF \A k \in 1..Len(es) : entryInserts(es[k])
     THEN [ok |-> TRUE,
           grants |-> upd \o [k \in 1..Len(new) |->
                                PublishedGrant(u, i, new[k], t)]]
     ELSE [ok |-> FALSE, grants |-> grants]

\* the inserts awaited one after the other outside a transaction: the rows
\* before the first entry that fails stay
publishTransaction_OneByOne(u, i, es, t) ==
  LET bad == {k \in 1..Len(es) : ~entryInserts(es[k])}
      n == IF bad = {} THEN Len(es)
           ELSE (CHOOSE k \in bad : \A j \in bad : k <= j) - 1
  IN [ok |-> bad = {},
      grants |-> grants \o [k \in 1..n |-> PublishedGrant(u, i, es[k], t)]]

\* await prisma.$transaction(grants.map(create)): all rows or none
publishTransaction(u, i, es, t) ==
  IF \A k \in 1..Len(es) : entryInserts(es[k])
  THEN [ok |-> TRUE,
        grants |-> grants \o [k \in 1..Len(es) |->
                                PublishedGrant(u, i, es[k], t)]]
  ELSE [ok |-> FALSE, grants |-> grants]

PublishBegin(p, budget, u, i, es) ==
  Begin(p, budget, "publish", u, "auth",
        [Idle EXCEPT !.item = i, !.entries = es])

\* await requireActiveUser(session.userId); the catch block answers every
\* throw with 500
PublishAuth(p) ==
  /\ At(p, "publish", "auth")
  /\ proc' = [proc EXCEPT ![p] =
       IF requireActiveUser(proc[p].caller) # 0
       THEN Respond(p, 500)
       ELSE [proc[p] EXCEPT !.pc = "item"]]
  /\ UNCHANGED <<users, items, client, twin, files, requests, grants, audit, now, calls>>

\* await prisma.vaultItem.findUnique(...), the checks, new Date()
PublishItem(p) ==
  /\ At(p, "publish", "item")
  /\ proc' = [proc EXCEPT ![p] =
       IF publishChecks(proc[p].caller, proc[p].item) # 0
       THEN Respond(p, publishChecks(proc[p].caller, proc[p].item))
       ELSE [proc[p] EXCEPT !.pc = "commit", !.t = now]]
  /\ UNCHANGED <<users, items, client, twin, files, requests, grants, audit, now, calls>>

\* await prisma.$transaction(...); status 200, a throw is answered 500
PublishCommit(p) ==
  /\ At(p, "publish", "commit")
  /\ LET tx == publishTransaction(proc[p].caller, proc[p].item,
                                  proc[p].entries, proc[p].t) IN
     /\ grants' = tx.grants
     /\ proc' = [proc EXCEPT ![p] =
          IF tx.ok
          THEN [Respond(p, 200) EXCEPT !.wrote = (proc[p].entries # <<>>)]
          ELSE Respond(p, 500)]
  /\ UNCHANGED <<users, items, client, twin, files, requests, audit, now, calls>>

(***************************************************************************)
(* POST /api/admin/members/:userId/approve and .../disable                 *)
(***************************************************************************)
activeAdmins ==
  Cardinality({u \in Users :
     users[u].exists /\ users[u].role = "ADMIN" /\ users[u].status = "ACTIVE"})

MemberApproveBegin(p, budget, u, target) ==
  Begin(p, budget, "memberApprove", u, "auth", [Idle EXCEPT !.target = target])

\* await requireAdminUser(session.userId)
MemberApproveAuth(p) ==
  /\ At(p, "memberApprove", "auth")
  /\ proc' = [proc EXCEPT ![p] =
       IF requireAdminUser(proc[p].caller) # 0
       THEN Respond(p, requireAdminUser(proc[p].caller))
       ELSE [proc[p] EXCEPT !.pc = "fetch"]]
  /\ UNCHANGED <<users, items, client, twin, files, requests, grants, audit, now, calls>>

\* await prisma.user.findUnique({where: {id: params.userId}})
MemberApproveFetch(p) ==
  /\ At(p, "memberApprove", "fetch")
  /\ proc' = [proc EXCEPT ![p] =
       IF ~users[proc[p].target].exists
       THEN Respond(p, 404)
       ELSE [proc[p] EXCEPT !.pc = "commit"]]
  /\ UNCHANGED <<users, items, client, twin, files, requests, grants, audit, now, calls>>

\* await prisma.user.update({data: {status: ACTIVE}})
MemberApproveCommit(p) ==
  /\ At(p, "memberApprove", "commit")
  /\ users' = [users EXCEPT ![proc[p].target].status = "ACTIVE"]
  /\ proc' = [proc EXCEPT ![p] =
       [proc[p] EXCEPT !.pc = "audit", !.wrote = TRUE]]
  /\ UNCHANGED <<items, client, twin, files, requests, grants, audit, now, calls>>

\* await prisma.auditEvent.create(MEMBER_APPROVED); status 200
MemberApproveAudit(p) ==
  /\ At(p, "memberApprove", "audit")
  /\ audit' = audit \cup
       {AuditEvent(proc[p].caller, "MEMBER_APPROVED", "USER", proc[p].target)}
  /\ proc' = [proc EXCEPT ![p] = Respond(p, 200)]
  /\ UNCHANGED <<users, items, client, twin, files, requests, grants, now, calls>>

MemberDisableBegin(p, budget, u, target) ==
  Begin(p, budget, "memberDisable", u, "auth", [Idle EXCEPT !.target = target])

\* await requireAdminUser(session.userId)
MemberDisableAuth(p) ==
  /\ At(p, "memberDisable", "auth")
  /\ proc' = [proc EXCEPT ![p] =
       IF requireAdminUser(proc[p].caller) # 0
       THEN Respond(p, requireAdminUser(proc[p].caller))
       ELSE [proc[p] EXCEPT !.pc = "fetch"]]
  /\ UNCHANGED <<users, items, client, twin, files, requests, grants, audit, now, calls>>

\* await prisma.user.findUnique({where: {id: params.userId}})
MemberDisableFetch(p) ==
  /\ At(p, "memberDisable", "fetch")
  /\ proc' = [proc EXCEPT ![p] =
       IF ~users[proc[p].target].exists
       THEN Respond(p, 404)
       ELSE IF proc[p].target = proc[p].caller
       THEN [proc[p] EXCEPT !.pc = "count"]
       ELSE [proc[p] EXCEPT !.pc = "commit"]]
  /\ UNCHANGED <<users, items, client, twin, files, requests, grants, audit, now, calls>>

\* await prisma.user.count({where: {role: ADMIN, status: ACTIVE}})
MemberDisableCount(p) ==
  /\ At(p, "memberDisable", "count")
  /\ proc' = [proc EXCEPT ![p] =
       IF activeAdmins <= 1
       THEN Respond(p, 400)
       ELSE [proc[p] EXCEPT !.pc = "commit"]]
  /\ UNCHANGED <<users, items, client, twin, files, requests, grants, audit, now, calls>>

\* await prisma.user.update({data: {status: DISABLED}})
MemberDisableCommit(p) ==
  /\ At(p, "memberDisable", "commit")
  /\ users' = [users EXCEPT ![proc[p].target].status = "DISABLED"]
  /\ proc' = [proc EXCEPT ![p] =
       [proc[p] EXCEPT !.pc = "audit", !.wrote = TRUE]]
  /\ UNCHANGED <<items, client, twin, files, requests, grants, audit, now, calls>>

\* await prisma.auditEvent.create(MEMBER_DISABLED); status 200
MemberDisableAudit(p) ==
  /\ At(p, "memberDisable", "audit")
  /\ audit' = audit \cup
       {AuditEvent(proc[p].caller, "MEMBER_DISABLED", "USER", proc[p].target)}
  /\ proc' = [proc EXCEPT ![p] = Respond(p, 200)]
  /\ UNCHANGED <<users, items, client, twin, files, requests, grants, now, calls>>

(***************************************************************************)
(* The catch blocks around the audit writes                                *)
(***************************************************************************)
\* await prisma.auditEvent.create(...) throws (the audit store refuses or
\* cannot be reached): the write of the handler is already committed, no
\* record is stored, and the catch block answers 500
AuditFails(p) ==
  /\ proc[p].op \in {"create", "approve", "deny", "cancel", "revoke"}
  /\ proc[p].pc \in {"audit", "audit2"}
  /\ proc' = [proc EXCEPT ![p] = Respond(p, 500)]
  /\ UNCHANGED <<users, items, client, twin, files, requests, grants, audit, now, calls>>

(***************************************************************************)
(* POST /api/auth/signup                                                   *)
(***************************************************************************)
\* no row of the user table
NoUser ==
  [exists |-> FALSE, role |-> Null, status |-> Null, publicKey |-> Null,
   encryptedPrivateKey |-> Null, createdAt |-> NullTime]

\* the role and status that the store gives a row created without them
DefaultRole == "MEMBER"
DefaultStatus == "PENDING"

\* prisma.user.create({data: {email, passwordHash, kdfSalt}})
NewUser ==
  [exists |-> TRUE, role |-> DefaultRole, status |-> DefaultStatus,
   publicKey |-> Null, encryptedPrivateKey |-> Null, createdAt |-> now]

SignupBegin(p, budget, email) ==
  Begin(p, budget, "signup", email, "lookup", Idle)

\* await prisma.user.findUnique({where: {email}}); 400 when it exists
SignupLookup(p) ==
  /\ At(p, "signup", "lookup")
  /\ proc' = [proc EXCEPT ![p] =
       IF users[proc[p].caller].exists
       THEN Respond(p, 400)
       ELSE [proc[p] EXCEPT !.pc = "insert"]]
  /\ UNCHANGED <<users, items, client, twin, files, requests, grants, audit, now, calls>>

\* await prisma.user.create(...); the unique email makes a second insert
\* throw, which the catch block answers with 500
SignupInsert(p) ==
  /\ At(p, "signup", "insert")
  /\ IF users[proc[p].caller].exists
     THEN /\ users' = users
          /\ proc' = [proc EXCEPT ![p] = Respond(p, 500)]
     ELSE /\ users' = [users EXCEPT ![proc[p].caller] = NewUser]
          /\ proc' = [proc EXCEPT ![p] =
               [proc[p] EXCEPT !.pc = "audit", !.wrote = TRUE]]
  /\ UNCHANGED <<items, client, twin, files, requests, grants, audit, now, calls>>

\* await prisma.auditEvent.create(SIGNUP); status 200
SignupAudit(p) ==
  /\ At(p, "signup", "audit")
  /\ audit' = audit \cup
       {AuditEvent(proc[p].caller, "SIGNUP", "USER", proc[p].caller)}
  /\ proc' = [proc EXCEPT ![p] = Respond(p, 200)]
  /\ UNCHANGED <<users, items, client, twin, files, requests, grants, now, calls>>

(***************************************************************************)
(* POST /api/keys/me                                                       *)
(***************************************************************************)
\* the bodies a client posts: two generated key pairs and a body without
\* the private half
KeyInputs ==
  {[publicKey |-> "pkA", encryptedPrivateKey |-> "eskA"],
   [publicKey |-> "pkB", encryptedPrivateKey |-> "eskB"],
   [publicKey |-> "pkA", encryptedPrivateKey |-> Null]}

KeyUploadBegin(p, budget, u, body) ==
  Begin(p, budget, "keyUpload", u, "fetch",
        [Idle EXCEPT !.inp = body.publicKey, !.priv = body.encryptedPrivateKey])

\* the body is validated (400), then await prisma.user.findUnique(...):
\* 404 without a row, 409 when either half of a key pair is stored
KeyUploadFetch(p) ==
  /\ At(p, "keyUpload", "fetch")
  /\ proc' = [proc EXCEPT ![p] =
       IF proc[p].inp = Null \/ proc[p].priv = Null THEN Respond(p, 400)
       ELSE IF ~users[proc[p].caller].exists THEN Respond(p, 404)
       ELSE IF \/ users[proc[p].caller].publicKey # Null
               \/ users[proc[p].caller].encryptedPrivateKey # Null
       THEN Respond(p, 409)
       ELSE [proc[p] EXCEPT !.pc = "commit"]]
  /\ UNCHANGED <<users, items, client, twin, files, requests, grants, audit, now, calls>>

\* await prisma.user.update({where: {id}, data: {publicKey,
\* encryptedPrivateKey}})
KeyUploadCommit(p) ==
  /\ At(p, "keyUpload", "commit")
  /\ users' = [users EXCEPT ![proc[p].caller] =
       [@ EXCEPT !.publicKey = proc[p].inp,
                 !.encryptedPrivateKey = proc[p].priv]]
  /\ proc' = [proc EXCEPT ![p] =
       [proc[p] EXCEPT !.pc = "audit", !.wrote = TRUE]]
  /\ UNCHANGED <<items, client, twin, files, requests, grants, audit, now, calls>>

\* await prisma.auditEvent.create(KEYPAIR_CREATED); status 200
KeyUploadAudit(p) ==
  /\ At(p, "keyUpload", "audit")
  /\ audit' = audit \cup
       {AuditEvent(proc[p].caller, "KEYPAIR_CREATED", "USER", proc[p].caller)}
  /\ proc' = [proc EXCEPT ![p] = Respond(p, 200)]
  /\ UNCHANGED <<users, items, client, twin, files, requests, grants, now, calls>>

(***************************************************************************)
(* The file routes: PUT /api/files/:fileId/upload, POST .../complete,      *)
(* GET .../meta, GET .../download, DELETE /api/files/:fileId, and POST and *)
(* DELETE of an item's attachments.  A file is its FileBlob row together   *)
(* with the bytes stored at the row's storagePath.                         *)
(***************************************************************************)
FileIds == {"f1", "f2", "f3"}

FileOps ==
  {"upload", "complete", "meta", "download", "delete", "attach", "detach"}

NoFile ==
  [exists |-> FALSE, ownerUserId |-> Null, itemId |-> Null,
   wrappedFileKey |-> Null, cryptoMeta |-> Null, stored |-> Null]

\* f1 is u1's uploaded file attached to i1, f2 is u2's file fresh from init,
\* f3 names no row
TestFiles ==
  [f \in FileIds |->
     CASE f = "f1" -> [exists |-> TRUE, ownerUserId |-> "u1", itemId |-> "i1",
                       wrappedFileKey |-> "wfk0", cryptoMeta |-> "cm0",
                       stored |-> "bytes0"]
       [] f = "f2" -> [exists |-> TRUE, ownerUserId |-> "u2", itemId |-> Null,
                       wrappedFileKey |-> Null, cryptoMeta |-> Null,
                       stored |-> Null]
       [] OTHER -> NoFile]

\* variant without the comparison of fileBlob.ownerUserId and session.userId
fileChecks_NoOwnerCheck(o, u, f, i) ==
  IF ~files[f].exists THEN 404
  ELSE IF o = "detach" /\ files[f].itemId # i THEN 400
  ELSE 0

\* the checks on the fetched FileBlob: the status to answer with, 0 to go on
fileChecks(o, u, f, i) ==
  IF ~files[f].exists THEN 404
  ELSE IF files[f].ownerUserId # u THEN 403
  ELSE IF o = "detach" /\ files[f].itemId # i THEN 400
  ELSE 0

\* a file route is called by u for file f (and item i of an attachment)
FileBegin(p, budget, o, u, f, i) ==
  Begin(p, budget, o, u, "auth", [Idle EXCEPT !.file = f, !.item = i])

\* await requireActiveUser(session.userId)
FileAuth(p) ==
  /\ proc[p].op \in FileOps
  /\ proc[p].pc = "auth"
  /\ proc' = [proc EXCEPT ![p] =
       IF requireActiveUser(proc[p].caller) # 0
       THEN Respond(p, requireActiveUser(proc[p].caller))
       ELSE [proc[p] EXCEPT !.pc =
               IF proc[p].op \in {"attach", "detach"} THEN "item"
               ELSE "fetch"]]
  /\ UNCHANGED <<users, items, client, twin, files, requests, grants, audit,
                 now, calls>>

\* attachments: await prisma.vaultItem.findUnique(...) and the owner check
FileItem(p) ==
  /\ proc[p].op \in {"attach", "detach"}
  /\ proc[p].pc = "item"
  /\ proc' = [proc EXCEPT ![p] =
       IF ~items[proc[p].item].exists THEN Respond(p, 404)
       ELSE IF items[proc[p].item].ownerUserId # proc[p].caller
         THEN Respond(p, 403)
       ELSE [proc[p] EXCEPT !.pc = "fetch"]]
  /\ UNCHANGED <<users, items, client, twin, files, requests, grants, audit,
                 now, calls>>

\* await prisma.fileBlob.findUnique(...) and the checks; meta answers with
\* the selected columns
FileFetch(p) ==
  /\ proc[p].op \in FileOps
  /\ proc[p].pc = "fetch"
  /\ LET c == proc[p]
         code == fileChecks(c.op, c.caller, c.file, c.item)
         read == [c EXCEPT !.fileOwner = files[c.file].ownerUserId]
     IN proc' = [proc EXCEPT ![p] =
          IF code # 0 THEN [Respond(p, code) EXCEPT
                              !.fileOwner = files[c.file].ownerUserId]
          ELSE IF c.op = "meta"
            THEN [read EXCEPT
                    !.pc = "done", !.code = 200,
                    !.rows = {[id |-> c.file,
                               wrappedFileKey |-> files[c.file].wrappedFileKey,
                               cryptoMeta |-> files[c.file].cryptoMeta,
                               itemId |-> files[c.file].itemId,
                               ownerUserId |-> files[c.file].ownerUserId]}]
          ELSE [read EXCEPT !.pc =
                  IF c.op \in {"upload", "download", "delete"} THEN "disk"
                  ELSE "commit"]]
  /\ UNCHANGED <<users, items, client, twin, files, requests, grants, audit,
                 now, calls>>

\* the await on lib/file-storage: writeEncryptedFile of the request body,
\* readEncryptedFile (which throws when nothing was uploaded), or
\* deleteEncryptedFile (which lets a missing file pass)
FileDisk(p) ==
  /\ proc[p].op \in {"upload", "download", "delete"}
  /\ proc[p].pc = "disk"
  /\ LET c == proc[p]
     IN CASE c.op = "upload" ->
               /\ files' = [files EXCEPT ![c.file].stored = "bytes1"]
               /\ proc' = [proc EXCEPT ![p] =
                    [Respond(p, 200) EXCEPT !.wrote = TRUE]]
          [] c.op = "download" ->
               /\ files' = files
               /\ proc' = [proc EXCEPT ![p] =
                    IF files[c.file].stored = Null THEN Respond(p, 500)
                    ELSE [Respond(p, 200) EXCEPT
                            !.rows = {[bytes |-> files[c.file].stored]}]]
          [] c.op = "delete" ->
               /\ files' = [files EXCEPT ![c.file].stored = Null]
               /\ proc' = [proc EXCEPT ![p] =
                    [c EXCEPT !.pc = "commit", !.wrote = TRUE]]
  /\ UNCHANGED <<users, items, client, twin, requests, grants, audit, now,
                 calls>>

\* await prisma.fileBlob.update(...) of complete, attach and detach, or
\* await prisma.fileBlob.delete(...)
FileCommit(p) ==
  /\ proc[p].op \in {"complete", "delete", "attach", "detach"}
  /\ proc[p].pc = "commit"
  /\ LET c == proc[p]
     IN /\ files' = [files EXCEPT ![c.file] =
               CASE c.op = "complete" ->
                      [@ EXCEPT !.wrappedFileKey = "wfk1",
                                !.cryptoMeta = "cm1"]
                 [] c.op = "delete" -> NoFile
                 [] c.op = "attach" -> [@ EXCEPT !.itemId = c.item]
                 [] c.op = "detach" -> [@ EXCEPT !.itemId = Null]]
        /\ proc' = [proc EXCEPT ![p] =
             IF c.op = "complete"
             THEN [Respond(p, 200) EXCEPT !.wrote = TRUE]
             ELSE [c EXCEPT !.pc = "audit", !.wrote = TRUE]]
  /\ UNCHANGED <<users, items, client, twin, requests, grants, audit, now,
                 calls>>

\* await prisma.auditEvent.create(...) of delete, attach and detach
FileAudit(p) ==
  /\ proc[p].op \in {"delete", "attach", "detach"}
  /\ proc[p].pc = "audit"
  /\ audit' = audit \cup
       {AuditEvent(proc[p].caller,
          CASE proc[p].op = "delete" -> "FILE_DELETED"
            [] proc[p].op = "attach" -> "FILE_ATTACHED"
            [] proc[p].op = "detach" -> "FILE_DETACHED",
          "FILE_BLOB", proc[p].file)}
  /\ proc' = [proc EXCEPT ![p] = Respond(p, 200)]
  /\ UNCHANGED <<users, items, client, twin, files, requests, grants, now,
                 calls>>

(***************************************************************************)
(* lib/crypto.client.ts: what the browser encrypts and decrypts.           *)
(* A byte string is a sequence of integers, a JavaScript string a sequence *)
(* of characters.  libsodium's boxes are authenticated: a box opens only   *)
(* under the key and nonce it was made with, and only while no byte of it  *)
(* has been altered.                                                       *)
(***************************************************************************)
\* the longest password typed into the form
MaxSecretLen == 2

\* characters of a typed secret: a letter, the two characters JSON escapes,
\* and a letter that takes two bytes of UTF-8
Chars == {"a", "\"", "\\", "eacute"}

\* strings of at most n characters
StringsUpTo(n) == UNION {[1..k -> Chars] : k \in 0..n}

\* const payload = { username, password, notes }
PayloadKeys == <<"username", "password", "notes">>

\* the payloads of the form: one user name, any password, short notes
Payloads ==
  [username : {<<"a">>}, password : StringsUpTo(MaxSecretLen),
   notes : StringsUpTo(1)]

\* 32-byte keys and 24-byte nonces of the random generator, one byte each
VaultKeys == {<<1>>, <<2>>}
Deks == {<<3>>, <<4>>}
Nonces == {<<5>>, <<6>>}
PrivateKeys == {<<7>>, <<8>>}

\* the public half crypto_box_keypair returns with a private key
publicKeyOf(sk) == <<sk[1] + 10>>

\* the bytes of a character in UTF-8
utf8 ==
  [c \in Chars \cup {"{", "}", ":", ",", "d", "e", "m", "n", "o", "p", "r",
                     "s", "t", "u", "w"} |->
     CASE c = "a" -> <<97>>     [] c = "\"" -> <<34>>   [] c = "\\" -> <<92>>
       [] c = "eacute" -> <<195, 169>>
       [] c = "{" -> <<123>>    [] c = "}" -> <<125>>   [] c = ":" -> <<58>>
       [] c = "," -> <<44>>     [] c = "d" -> <<100>>   [] c = "e" -> <<101>>
       [] c = "m" -> <<109>>    [] c = "n" -> <<110>>   [] c = "o" -> <<111>>
       [] c = "p" -> <<112>>    [] c = "r" -> <<114>>   [] c = "s" -> <<115>>
       [] c = "t" -> <<116>>    [] c = "u" -> <<117>>   [] c = "w" -> <<119>>]

\* a string argument of a sodium call is taken as its UTF-8 bytes
from_string(s) ==
  LET RECURSIVE enc(_)
      enc(x) == IF x = <<>> THEN <<>> ELSE utf8[Head(x)] \o enc(Tail(x))
  IN enc(s)

\* sodium.to_string: bytes below 128 are one character, a lead byte takes the
\* byte after it
to_string(b) ==
  LET RECURSIVE dec(_)
      dec(x) ==
        IF x = <<>> THEN <<>>
        ELSE IF Head(x) < 128
          THEN <<CHOOSE c \in DOMAIN utf8 : utf8[c] = <<Head(x)>>>>
                 \o dec(Tail(x))
          ELSE <<CHOOSE c \in DOMAIN utf8 : utf8[c] = SubSeq(x, 1, 2)>>
                 \o dec(SubSeq(x, 3, Len(x)))
  IN dec(b)

\* sodium.to_base64 / sodium.from_base64, both of the default variant
to_base64(bytes) == [b64 |-> bytes]

from_base64(text) == text.b64

\* the property names of a payload, spelled out
spell ==
  [k \in {"username", "password", "notes"} |->
     CASE k = "username" -> <<"u", "s", "e", "r", "n", "a", "m", "e">>
       [] k = "password" -> <<"p", "a", "s", "s", "w", "o", "r", "d">>
       [] k = "notes" -> <<"n", "o", "t", "e", "s">>]

\* JSON.stringify of an object of strings: members in the order of the
\* object's keys, quotes and backslashes inside a string escaped
JSONstringify(payload) ==
  LET RECURSIVE esc(_)
      esc(s) ==
        IF s = <<>> THEN <<>>
        ELSE (IF Head(s) \in {"\"", "\\"} THEN <<"\\", Head(s)>>
              ELSE <<Head(s)>>) \o esc(Tail(s))
      quote(s) == <<"\"">> \o esc(s) \o <<"\"">>
      RECURSIVE members(_)
      members(i) ==
        IF i > Len(PayloadKeys) THEN <<>>
        ELSE (IF i > 1 THEN <<",">> ELSE <<>>)
             \o quote(spell[PayloadKeys[i]]) \o <<":">>
             \o quote(payload[PayloadKeys[i]]) \o members(i + 1)
  IN <<"{">> \o members(1) \o <<"}">>

\* what a call that threw leaves in place of a parsed payload
NoPayload == [username |-> <<>>, password |-> <<>>, notes |-> <<>>]

ThrowJson == [ok |-> FALSE, val |-> NoPayload]

\* what a call that threw leaves in place of bytes
ThrowBytes == [ok |-> FALSE, val |-> <<>>]

\* JSON.parse of the text of an object of strings; a SyntaxError otherwise
JSONparse(text) ==
  LET none == [ok |-> FALSE, val |-> <<>>, next |-> 0]
      RECURSIVE chars(_, _)
      \* the characters from position i up to the closing quote
      chars(i, acc) ==
        IF i > Len(text) THEN none
        ELSE IF text[i] = "\"" THEN [ok |-> TRUE, val |-> acc, next |-> i + 1]
        ELSE IF text[i] = "\\"
          THEN IF i + 1 > Len(text) THEN none
               ELSE chars(i + 2, Append(acc, text[i + 1]))
        ELSE chars(i + 1, Append(acc, text[i]))
      string(i) ==
        IF i <= Len(text) /\ text[i] = "\"" THEN chars(i + 1, <<>>) ELSE none
      RECURSIVE members(_, _)
      members(i, acc) ==
        LET k == string(i)
            v == string(k.next + 1)
            all == Append(acc, <<k.val, v.val>>)
        IN IF ~k.ok \/ k.next > Len(text) THEN none
           ELSE IF text[k.next] # ":" \/ ~v.ok \/ v.next > Len(text) THEN none
           ELSE IF text[v.next] = "," THEN members(v.next + 1, all)
           ELSE IF text[v.next] = "}" /\ v.next = Len(text)
             THEN [ok |-> TRUE, val |-> all, next |-> v.next + 1]
           ELSE none
      parsed == members(2, <<>>)
      name(i) == CHOOSE k \in DOMAIN spell : spell[k] = parsed.val[i][1]
      \* a repeated property keeps its last value
      last(k) ==
        CHOOSE i \in DOMAIN parsed.val :
          /\ name(i) = k
          /\ \A j \in DOMAIN parsed.val : name(j) = k => j <= i
  IN IF text = <<>> \/ text[1] # "{" \/ ~parsed.ok THEN ThrowJson
     ELSE [ok |-> TRUE,
           val |-> [k \in {name(i) : i \in DOMAIN parsed.val} |->
                      parsed.val[last(k)][2]]]

\* crypto_secretbox_easy(message, nonce, key)
crypto_secretbox_easy(message, nonce, key) ==
  [boxed |-> message, nonce |-> nonce, key |-> key, altered |-> FALSE]

\* crypto_secretbox_open_easy(ciphertext, nonce, key) returns the message or
\* throws
crypto_secretbox_open_easy(box, nonce, key) ==
  IF box.key = key /\ box.nonce = nonce /\ ~box.altered
  THEN [ok |-> TRUE, val |-> box.boxed]
  ELSE ThrowBytes

\* crypto_box_seal(message, publicKey)
crypto_box_seal(message, pk) ==
  [boxed |-> message, to |-> pk, altered |-> FALSE]

\* crypto_box_seal_open(ciphertext, publicKey, privateKey)
crypto_box_seal_open(box, pk, sk) ==
  IF box.to = pk /\ publicKeyOf(sk) = pk /\ ~box.altered
  THEN [ok |-> TRUE, val |-> box.boxed]
  ELSE ThrowBytes

\* variant that catches a failed open and returns an empty payload
decryptVaultItem_CatchesThrow(wrappedItemKey, encryptedPayload, cryptoMeta, vaultKey) ==
  LET dek == crypto_secretbox_open_easy(from_base64(wrappedItemKey),
               from_base64(cryptoMeta.dekNonce), vaultKey)
      decryptedBytes ==
        crypto_secretbox_open_easy(from_base64(encryptedPayload),
          from_base64(cryptoMeta.payloadNonce), dek.val)
  IN IF ~dek.ok \/ ~decryptedBytes.ok THEN [ok |-> TRUE, val |-> NoPayload]
     ELSE JSONparse(to_string(decryptedBytes.val))

\* variant that opens the payload under the nonce of the wrapped key
decryptVaultItem_WithDekNonce(wrappedItemKey, encryptedPayload, cryptoMeta, vaultKey) ==
  LET dek == crypto_secretbox_open_easy(from_base64(wrappedItemKey),
               from_base64(cryptoMeta.dekNonce), vaultKey)
      decryptedBytes ==
        crypto_secretbox_open_easy(from_base64(encryptedPayload),
          from_base64(cryptoMeta.dekNonce), dek.val)
  IN IF ~dek.ok \/ ~decryptedBytes.ok THEN ThrowJson
     ELSE JSONparse(to_string(decryptedBytes.val))

\* encryptVaultItem(payload, vaultKey); dek, payloadNonce and dekNonce are
\* the three values it draws from the random generator
encryptVaultItem(payload, vaultKey, dek, payloadNonce, dekNonce) ==
  LET payloadString == JSONstringify(payload)
      encryptedPayload ==
        crypto_secretbox_easy(from_string(payloadString), payloadNonce, dek)
      wrappedDek == crypto_secretbox_easy(dek, dekNonce, vaultKey)
  IN [wrappedItemKey |-> to_base64(wrappedDek),
      encryptedPayload |-> to_base64(encryptedPayload),
      cryptoMeta |-> [alg |-> "xchacha20poly1305",
                      dekNonce |-> to_base64(dekNonce),
                      payloadNonce |-> to_base64(payloadNonce)]]

\* decryptVaultItem(wrappedItemKey, encryptedPayload, cryptoMeta, vaultKey)
decryptVaultItem(wrappedItemKey, encryptedPayload, cryptoMeta, vaultKey) ==
  LET dek == crypto_secretbox_open_easy(from_base64(wrappedItemKey),
               from_base64(cryptoMeta.dekNonce), vaultKey)
      decryptedBytes ==
        crypto_secretbox_open_easy(from_base64(encryptedPayload),
          from_base64(cryptoMeta.payloadNonce), dek.val)
  IN IF ~dek.ok \/ ~decryptedBytes.ok THEN ThrowJson
     ELSE JSONparse(to_string(decryptedBytes.val))

\* encryptPrivateKey(privateKey, vaultKey); nonce is its random draw.  The
\* result is the text `${nonce}:${encrypted}`, kept as its three parts
encryptPrivateKey(privateKey, vaultKey, nonce) ==
  <<to_base64(nonce), ":",
    to_base64(crypto_secretbox_easy(privateKey, nonce, vaultKey))>>

\* decryptPrivateKey(encryptedData, vaultKey): the parts around the colon
decryptPrivateKey(encryptedData, vaultKey) ==
  LET nonceB64 == encryptedData[1]
      cipherB64 == encryptedData[3]
  IN crypto_secretbox_open_easy(from_base64(cipherB64),
       from_base64(nonceB64), vaultKey)

unwrapItemKeyFromVault(wrappedItemKey, cryptoMeta, vaultKey) ==
  crypto_secretbox_open_easy(from_base64(wrappedItemKey),
    from_base64(cryptoMeta.dekNonce), vaultKey)

wrapItemKeyForRecipient(itemDek, recipientPublicKey) ==
  to_base64(crypto_box_seal(itemDek, from_base64(recipientPublicKey)))

\* variant that opens the sealed box whatever private key it is given
unwrapItemKeyFromGrant_AnyPrivateKey(wrappedKey, publicKey, privateKey) ==
  [ok |-> TRUE, val |-> from_base64(wrappedKey).boxed]

unwrapItemKeyFromGrant(wrappedKey, publicKey, privateKey) ==
  crypto_box_seal_open(from_base64(wrappedKey), from_base64(publicKey),
    privateKey)

\* variant that opens the payload under the nonce of the wrapped key
decryptPayloadWithDek_WithDekNonce(encryptedPayload, cryptoMeta, dek) ==
  LET decryptedBytes ==
        crypto_secretbox_open_easy(from_base64(encryptedPayload),
          from_base64(cryptoMeta.dekNonce), dek)
  IN IF ~decryptedBytes.ok THEN ThrowJson
     ELSE JSONparse(to_string(decryptedBytes.val))

decryptPayloadWithDek(encryptedPayload, cryptoMeta, dek) ==
  LET decryptedBytes ==
        crypto_secretbox_open_easy(from_base64(encryptedPayload),
          from_base64(cryptoMeta.payloadNonce), dek)
  IN IF ~decryptedBytes.ok THEN ThrowJson
     ELSE JSONparse(to_string(decryptedBytes.val))

(***************************************************************************)
(* The pages that call lib/crypto.client.ts.  client is what the browsers  *)
(* of an item's owner and of a recipient hold, together with the rows the  *)
(* server keeps for them: the item's bundle, the recipient's key pair and  *)
(* the grant's sealed key.                                                 *)
(***************************************************************************)
NoBundle == encryptVaultItem(NoPayload, <<0>>, <<0>>, <<0>>, <<0>>)

NoKeyInfo ==
  [publicKey |-> to_base64(<<0>>),
   encryptedPrivateKey |-> encryptPrivateKey(<<0>>, <<0>>, <<0>>)]

NoSealedKey == wrapItemKeyForRecipient(<<0>>, to_base64(<<0>>))

NoClient ==
  [pc |-> "none", payload |-> NoPayload, vaultKey |-> <<0>>,
   bundle |-> NoBundle, sent |-> NoBundle, key |-> <<0>>, out |-> ThrowJson,
   kpc |-> "none", privateKey |-> <<0>>, recipientKey |-> <<0>>,
   keyInfo |-> NoKeyInfo,
   gpc |-> "none", sealed |-> NoSealedKey, sealedAs |-> NoSealedKey,
   gkey |-> <<0>>, gout |-> ThrowJson, tried |-> <<0>>,
   itemDek |-> ThrowBytes]

ClientStep(fields) ==
  /\ client' = fields
  /\ UNCHANGED <<users, items, requests, grants, audit, now, proc, calls,
                 twin, files>>

\* vault/new: handleSubmit encrypts the form's payload and posts the bundle
EncryptItem ==
  /\ client.pc = "form"
  /\ \E dek \in Deks, payloadNonce \in Nonces, dekNonce \in Nonces :
       LET bundle == encryptVaultItem(client.payload, client.vaultKey, dek,
                       payloadNonce, dekNonce)
       IN ClientStep([client EXCEPT !.pc = "stored", !.bundle = bundle,
                                    !.sent = bundle])

\* the stored bundle comes back changed in one part: a byte of a ciphertext,
\* or another nonce
AlterStored ==
  /\ client.pc = "stored"
  /\ client.gpc \in {"none", "sealed"}
  /\ client.bundle = client.sent
  /\ \E part \in {"encryptedPayload", "wrappedItemKey", "payloadNonce",
                  "dekNonce"}, nonce \in Nonces :
       LET b == client.bundle
           flipped(text) == to_base64([from_base64(text) EXCEPT
                                         !.altered = TRUE])
           changed ==
             CASE part = "encryptedPayload" ->
                    [b EXCEPT !.encryptedPayload = flipped(@)]
               [] part = "wrappedItemKey" ->
                    [b EXCEPT !.wrappedItemKey = flipped(@)]
               [] part = "payloadNonce" ->
                    [b EXCEPT !.cryptoMeta.payloadNonce = to_base64(nonce)]
               [] part = "dekNonce" ->
                    [b EXCEPT !.cryptoMeta.dekNonce = to_base64(nonce)]
       IN /\ changed # b
          /\ ClientStep([client EXCEPT !.bundle = changed])

\* vault: the list decrypts an item under the key of the entered password
OpenItem ==
  /\ client.pc = "stored"
  /\ client.gpc = "none"
  /\ \E key \in VaultKeys :
       ClientStep([client EXCEPT
         !.pc = "opened", !.key = key,
         !.out = decryptVaultItem(client.bundle.wrappedItemKey,
                   client.bundle.encryptedPayload, client.bundle.cryptoMeta,
                   key)])

\* VaultContext: ensureKeypair makes the recipient's pair and posts the
\* public key with the private key encrypted under the recipient's vault key
EnsureKeypair ==
  /\ client.kpc = "none"
  /\ \E privateKey \in PrivateKeys, key \in VaultKeys, nonce \in Nonces :
       ClientStep([client EXCEPT
         !.kpc = "made", !.privateKey = privateKey, !.recipientKey = key,
         !.keyInfo = [publicKey |-> to_base64(publicKeyOf(privateKey)),
                      encryptedPrivateKey |->
                        encryptPrivateKey(privateKey, key, nonce)]])

\* files: handleApprove unwraps the item's key under the owner's vault key
\* and seals it to the requester's public key; nothing is posted when the
\* unwrapping throws
HandleApprove ==
  /\ client.pc = "stored"
  /\ client.kpc = "made"
  /\ client.gpc = "none"
  /\ \E key \in VaultKeys :
       LET itemDek == unwrapItemKeyFromVault(client.bundle.wrappedItemKey,
                        client.bundle.cryptoMeta, key)
           sealed == wrapItemKeyForRecipient(itemDek.val,
                       client.keyInfo.publicKey)
       IN IF itemDek.ok
          THEN ClientStep([client EXCEPT !.gpc = "sealed", !.sealed = sealed,
                                         !.sealedAs = sealed])
          ELSE ClientStep([client EXCEPT !.gpc = "failed"])

\* the grant's sealed key comes back with a byte changed
AlterSealed ==
  /\ client.gpc = "sealed"
  /\ client.sealed = client.sealedAs
  /\ ClientStep([client EXCEPT !.sealed =
       to_base64([from_base64(@) EXCEPT !.altered = TRUE])])

\* shared: decryptGrant recovers the private key under the key of the
\* entered password, unseals the item's key and decrypts the payload
DecryptGrant ==
  /\ client.gpc = "sealed"
  /\ \E key \in VaultKeys :
       LET privateKey ==
             decryptPrivateKey(client.keyInfo.encryptedPrivateKey, key)
           itemDek ==
             unwrapItemKeyFromGrant(client.sealed, client.keyInfo.publicKey,
               privateKey.val)
           decrypted ==
             decryptPayloadWithDek(client.bundle.encryptedPayload,
               client.bundle.cryptoMeta, itemDek.val)
       IN ClientStep([client EXCEPT
            !.gpc = "read", !.gkey = key,
            !.gout = IF privateKey.ok /\ itemDek.ok THEN decrypted
                     ELSE ThrowJson])

\* unwrapItemKeyFromGrant applied to the sealed key, the public key it was
\* sealed to and any private key
UnwrapWith ==
  /\ client.gpc = "sealed"
  /\ \E privateKey \in PrivateKeys :
       ClientStep([client EXCEPT
         !.gpc = "unsealed", !.tried = privateKey,
         !.itemDek = unwrapItemKeyFromGrant(client.sealed,
                       client.keyInfo.publicKey, privateKey)])

(***************************************************************************)
(* What the server is sent.  Two browsers, A and B, go through the same    *)
(* pages with the same e-mail address, title and random draws; the master  *)
(* password and the payload typed into each may differ.  twin holds both   *)
(* and what the server has received and stored of each.                    *)
(***************************************************************************)
Runs == {"A", "B"}

\* master passwords of the model; each passes the length check of signup
MasterPasswords == {<<"a">>, <<"a", "a">>}

TwinPayloads == {p \in Payloads : Len(p.password) = 1 /\ p.notes = <<>>}

\* lib/auth.ts: argon2.hash(password, {type: argon2id}) with its random salt
hashPassword(password, salt) == [argon2id |-> password, salt |-> salt]

\* deriveVaultKey(password, saltBase64): crypto_pwhash gives a key that
\* differs whenever the password or the salt does
deriveVaultKey(password, saltBase64) ==
  <<0>> \o from_string(password) \o from_base64(saltBase64)

NoView ==
  [signup |-> [email |-> Null, password |-> <<>>],
   user |-> [email |-> Null, passwordHash |-> hashPassword(<<>>, <<0>>),
             kdfSalt |-> to_base64(<<0>>)],
   login |-> [email |-> Null, password |-> <<>>],
   vault |-> [title |-> <<>>, wrappedItemKey |-> NoBundle.wrappedItemKey,
              encryptedPayload |-> NoBundle.encryptedPayload,
              cryptoMeta |-> NoBundle.cryptoMeta],
   keys |-> NoKeyInfo]

NoTwin ==
  [pc |-> "none",
   password |-> [x \in Runs |-> <<>>],
   payload |-> [x \in Runs |-> NoPayload],
   vaultKey |-> [x \in Runs |-> <<0>>],
   seen |-> [x \in Runs |-> NoView]]

TwinStep(fields) ==
  /\ twin' = fields
  /\ UNCHANGED <<users, items, requests, grants, audit, now, proc, calls,
                 client, files>>

\* signup page and POST /api/auth/signup: the form's password is posted and
\* the server stores its hash with a fresh kdfSalt
TwinSignup ==
  /\ twin.pc = "new"
  /\ \E hashSalt \in Nonces, kdfSalt \in Nonces :
       TwinStep([twin EXCEPT
         !.pc = "signedUp",
         !.seen = [x \in Runs |->
           [twin.seen[x] EXCEPT
              !.signup = [email |-> "e1", password |-> twin.password[x]],
              !.user = [email |-> "e1",
                        passwordHash |->
                          hashPassword(twin.password[x], hashSalt),
                        kdfSalt |-> to_base64(kdfSalt)]]]])

\* login page and POST /api/auth/login: the form's password is posted and
\* verified against the stored hash
TwinLogin ==
  /\ twin.pc = "signedUp"
  /\ TwinStep([twin EXCEPT
       !.pc = "loggedIn",
       !.seen = [x \in Runs |->
         [twin.seen[x] EXCEPT
            !.login = [email |-> "e1", password |-> twin.password[x]]]]])

\* vault page: handleUnlock derives the vault key from the typed master
\* password and the salt the server returned; nothing is sent
TwinUnlock ==
  /\ twin.pc = "loggedIn"
  /\ TwinStep([twin EXCEPT
       !.pc = "unlocked",
       !.vaultKey = [x \in Runs |->
         deriveVaultKey(twin.password[x], twin.seen[x].user.kdfSalt)]])

\* vault/new and POST /api/vault: the body holds the title and the bundle
TwinCreateItem ==
  /\ twin.pc = "unlocked"
  /\ \E dek \in Deks, payloadNonce \in Nonces, dekNonce \in Nonces :
       TwinStep([twin EXCEPT
         !.pc = "stored",
         !.seen = [x \in Runs |->
           LET bundle == encryptVaultItem(twin.payload[x], twin.vaultKey[x],
                           dek, payloadNonce, dekNonce)
           IN [twin.seen[x] EXCEPT
                 !.vault = [title |-> <<"N", "o">>,
                            wrappedItemKey |-> bundle.wrappedItemKey,
                            encryptedPayload |-> bundle.encryptedPayload,
                            cryptoMeta |-> bundle.cryptoMeta]]]])

\* ensureKeypair and POST /api/keys/me: the body holds the public key and
\* the private key encrypted under the vault key
TwinEnsureKeypair ==
  /\ twin.pc = "stored"
  /\ \E privateKey \in PrivateKeys, nonce \in Nonces :
       TwinStep([twin EXCEPT
         !.pc = "keyed",
         !.seen = [x \in Runs |->
           [twin.seen[x] EXCEPT
              !.keys = [publicKey |-> to_base64(publicKeyOf(privateKey)),
                        encryptedPrivateKey |->
                          encryptPrivateKey(privateKey, twin.vaultKey[x],
                            nonce)]]]])

(***************************************************************************)
(* Initial states                                                          *)
(***************************************************************************)
User(role, status, key) ==
  [exists |-> TRUE, role |-> role, status |-> status, publicKey |-> key,
   encryptedPrivateKey |-> IF key = Null THEN Null ELSE "esk", createdAt |-> 0]

\* text is a sequence of characters; an item without a url has the empty one
Item(owner, visibility, requestable, title, url) ==
  [exists |-> TRUE, ownerUserId |-> owner, visibility |-> visibility,
   requestable |-> requestable, title |-> title, url |-> url,
   wrappedItemKey |-> "encrypted_dek", encryptedPayload |-> "encrypted_payload",
   cryptoMeta |-> "crypto_meta"]

\* the items of tests/access-requests.test.ts, owned by u1; the private item
\* i2 is kept requestable so that its visibility alone rejects a request
TestItems ==
  [i \in ItemIds \cup {MissingItem} |->
     CASE i = "i1" ->
            Item("u1", "FAMILY_METADATA", TRUE, <<"P", "u", "b">>, <<"e", "x">>)
       [] i = "i2" ->
            Item("u1", "PRIVATE", TRUE, <<"P", "r", "i">>, <<>>)
       [] i = "i3" ->
            Item("u1", "FAMILY_METADATA", FALSE, <<"N", "o">>, <<>>)
       [] OTHER -> NoItem]

EmptyStore ==
  /\ requests = <<>>
  /\ grants = <<>>
  /\ audit = {}
  /\ now = 0
  /\ proc = [p \in Procs |-> Idle]
  /\ calls = 0
  /\ client = NoClient
  /\ twin = NoTwin
  /\ files = TestFiles

\* an admin owner and two active members, every one with a key pair
Init ==
  /\ users = [u \in Users |->
       User(IF u = "u1" THEN "ADMIN" ELSE "MEMBER", "ACTIVE", "pk")]
  /\ items = TestItems
  /\ EmptyStore

(***************************************************************************)
(* Spec: concurrent create / approve / deny / cancel calls by any user     *)
(***************************************************************************)
Next ==
  \/ Tick
  \/ \E p \in Procs, u \in Users :
       \/ \E r \in Reasons : CreateBegin(p, MaxCalls, u, "i1", r)
       \/ \E r \in 1..Len(requests), k \in WrappedKeys :
            ApproveBegin(p, MaxCalls, u, r, k, 0)
       \/ \E r \in 1..Len(requests), n \in Notes :
            DenyBegin(p, MaxCalls, u, r, n)
       \/ \E r \in 1..Len(requests) : CancelBegin(p, MaxCalls, u, r)
  \/ \E p \in Procs :
       \/ CreateAuth(p) \/ CreateItem(p) \/ CreateLookup(p)
       \/ CreateInsert(p) \/ CreateAudit(p)
       \/ ApproveAuth(p) \/ ApproveFetch(p) \/ ApproveCommit(p)
       \/ ApproveAudit(p) \/ ApproveAuditGrant(p)
       \/ DenyAuth(p) \/ DenyFetch(p) \/ DenyCommit(p) \/ DenyAudit(p)
       \/ CancelAuth(p) \/ CancelFetch(p) \/ CancelCommit(p)
       \/ CancelAudit(p)

Spec == Init /\ [][Next]_vars

(***************************************************************************)
(* SpecPair: the owner u1 and the requester u2 of item i1 are the only     *)
(* callers, which leaves room for longer runs                              *)
(***************************************************************************)
NextPair ==
  \/ Tick
  \/ \E p \in Procs :
       \/ CreateBegin(p, MaxPairCalls, "u2", "i1", Null)
       \/ \E r \in 1..Len(requests) :
            \E e \in ClientExpiries :
              ApproveBegin(p, MaxPairCalls, "u1", r, "k1", e)
       \/ \E r \in 1..Len(requests) :
            DenyBegin(p, MaxPairCalls, "u1", r, Null)
       \/ \E r \in 1..Len(requests) : CancelBegin(p, MaxPairCalls, "u2", r)
  \/ \E p \in Procs :
       \/ CreateAuth(p) \/ CreateItem(p) \/ CreateLookup(p)
       \/ CreateInsert(p) \/ CreateAudit(p)
       \/ ApproveAuth(p) \/ ApproveFetch(p) \/ ApproveCommit(p)
       \/ ApproveAudit(p) \/ ApproveAuditGrant(p)
       \/ DenyAuth(p) \/ DenyFetch(p) \/ DenyCommit(p) \/ DenyAudit(p)
       \/ CancelAuth(p) \/ CancelFetch(p) \/ CancelCommit(p)
       \/ CancelAudit(p)

SpecPair == Init /\ [][NextPair]_vars

(***************************************************************************)
(* SpecGate: one call at a time, every handler, by callers of every        *)
(* account status                                                          *)
(***************************************************************************)
Statuses == {"PENDING", "ACTIVE", "DISABLED"}

PublishInputs ==
  {<<[toUserId |-> "u2", wrappedItemKey |-> "k1"]>>,
   <<[toUserId |-> "u2", wrappedItemKey |-> "k1"],
     [toUserId |-> "u3", wrappedItemKey |-> Null]>>}

\* the owner and admin u1 of any status, the member u2 of any status with or
\* without a key pair, a second admin u3
InitGate ==
  /\ \E s1 \in Statuses, s2 \in Statuses, k2 \in {"pk", Null} :
       users = [u \in Users |->
         CASE u = "u1" -> User("ADMIN", s1, "pk")
           [] u = "u2" -> User("MEMBER", s2, k2)
           [] OTHER -> User("ADMIN", "ACTIVE", "pk")]
  /\ items = TestItems
  /\ EmptyStore

NextGate ==
  \/ Tick
  \/ \E u \in Users :
       \/ \E i \in ItemIds \cup {MissingItem} :
            \/ CreateBegin("p1", MaxSeqCalls, u, i, Null)
            \/ LegacyCreateBegin("p1", MaxSeqCalls, u, i, Null)
       \/ \E r \in 1..Len(requests) :
            \/ ApproveBegin("p1", MaxSeqCalls, u, r, "k1", 0)
            \/ DenyBegin("p1", MaxSeqCalls, u, r, Null)
            \/ CancelBegin("p1", MaxSeqCalls, u, r)
       \/ ListIncomingBegin("p1", MaxSeqCalls, u)
       \/ ListOutgoingBegin("p1", MaxSeqCalls, u)
       \/ ListFamilyBegin("p1", MaxSeqCalls, u, <<>>)
       \/ LegacyListFamilyBegin("p1", MaxSeqCalls, u, <<>>)
       \/ ListGrantsBegin("p1", MaxSeqCalls, u)
       \/ \E g \in 1..Len(grants) :
            \/ RevokeBegin("p1", MaxSeqCalls, u, g)
            \/ ViewBegin("p1", MaxSeqCalls, u, g)
       \/ \E es \in PublishInputs :
            PublishBegin("p1", MaxSeqCalls, u, "i1", es)
       \/ \E target \in Users :
            \/ MemberApproveBegin("p1", MaxSeqCalls, u, target)
            \/ MemberDisableBegin("p1", MaxSeqCalls, u, target)
  \/ \E p \in Procs :
       \/ CreateAuth(p) \/ CreateItem(p) \/ CreateLookup(p)
       \/ CreateInsert(p) \/ CreateAudit(p)
       \/ LegacyCreateItem(p) \/ LegacyCreateLookup(p)
       \/ LegacyCreateInsert(p) \/ LegacyCreateAudit(p)
       \/ ApproveAuth(p) \/ ApproveFetch(p) \/ ApproveCommit(p)
       \/ ApproveAudit(p) \/ ApproveAuditGrant(p)
       \/ DenyAuth(p) \/ DenyFetch(p) \/ DenyCommit(p) \/ DenyAudit(p)
       \/ CancelAuth(p) \/ CancelFetch(p) \/ CancelCommit(p)
       \/ CancelAudit(p)
       \/ ListIncomingQuery(p)
       \/ ListOutgoingAuth(p) \/ ListOutgoingQuery(p)
       \/ ListFamilyAuth(p) \/ ListFamilyQuery(p)
       \/ LegacyListFamilyQuery(p)
       \/ ListGrantsAuth(p) \/ ListGrantsQuery(p)
       \/ RevokeAuth(p) \/ RevokeFetch(p) \/ RevokeCommit(p)
       \/ RevokeAudit(p)
       \/ ViewAuth(p) \/ ViewFetch(p) \/ ViewAudit(p)
       \/ PublishAuth(p) \/ PublishItem(p) \/ PublishCommit(p)
       \/ MemberApproveAuth(p) \/ MemberApproveFetch(p)
       \/ MemberApproveCommit(p) \/ MemberApproveAudit(p)
       \/ MemberDisableAuth(p) \/ MemberDisableFetch(p)
       \/ MemberDisableCount(p) \/ MemberDisableCommit(p)
       \/ MemberDisableAudit(p)

SpecGate == InitGate /\ [][NextGate]_vars

(***************************************************************************)
(* SpecFamily: family listings with and without a search query, one call   *)
(* at a time, by callers of every account status                           *)
(***************************************************************************)
Queries == {<<>>, <<"p">>, <<"r", "i">>, <<"X">>, <<"z">>}

NextFamily ==
  \/ \E u \in Users, query \in Queries :
       \/ ListFamilyBegin("p1", MaxFamilyCalls, u, query)
       \/ LegacyListFamilyBegin("p1", MaxFamilyCalls, u, query)
  \/ \E p \in Procs :
       \/ ListFamilyAuth(p) \/ ListFamilyQuery(p)
       \/ LegacyListFamilyQuery(p)

SpecFamily == InitGate /\ [][NextFamily]_vars

(***************************************************************************)
(* SpecAudit: the transitions of a request and its grant, one call at a    *)
(* time, with an audit store whose writes may fail; a call that has begun  *)
(* runs to its response                                                    *)
(***************************************************************************)
AuditedSteps ==
  \E p \in Procs :
    \/ CreateAuth(p) \/ CreateItem(p) \/ CreateLookup(p)
    \/ CreateInsert(p) \/ CreateAudit(p)
    \/ ApproveAuth(p) \/ ApproveFetch(p) \/ ApproveCommit(p)
    \/ ApproveAudit(p) \/ ApproveAuditGrant(p)
    \/ DenyAuth(p) \/ DenyFetch(p) \/ DenyCommit(p) \/ DenyAudit(p)
    \/ CancelAuth(p) \/ CancelFetch(p) \/ CancelCommit(p) \/ CancelAudit(p)
    \/ RevokeAuth(p) \/ RevokeFetch(p) \/ RevokeCommit(p) \/ RevokeAudit(p)

NextAudit ==
  \/ CreateBegin("p1", MaxAuditCalls, "u2", "i1", Null)
  \/ \E r \in 1..Len(requests) :
       \/ ApproveBegin("p1", MaxAuditCalls, "u1", r, "k1", 0)
       \/ DenyBegin("p1", MaxAuditCalls, "u1", r, Null)
       \/ CancelBegin("p1", MaxAuditCalls, "u2", r)
  \/ \E g \in 1..Len(grants) : RevokeBegin("p1", MaxAuditCalls, "u1", g)
  \/ AuditedSteps
  \/ \E p \in Procs : AuditFails(p)

SpecAudit == Init /\ [][NextAudit]_vars /\ WF_vars(AuditedSteps)

(***************************************************************************)
(* SpecOwners: the calls of SpecGate on items of any owner, by active      *)
(* users                                                                   *)
(***************************************************************************)
InitOwners ==
  /\ users = [u \in Users |->
       User(IF u = "u1" THEN "ADMIN" ELSE "MEMBER", "ACTIVE", "pk")]
  /\ \E o1 \in Users, o2 \in Users :
       items = [i \in ItemIds \cup {MissingItem} |->
         CASE i = "i1" -> [TestItems[i] EXCEPT !.ownerUserId = o1]
           [] i = "i2" -> [TestItems[i] EXCEPT !.ownerUserId = o2,
                                               !.visibility = "FAMILY_METADATA"]
           [] OTHER -> TestItems[i]]
  /\ EmptyStore

SpecOwners == InitOwners /\ [][NextGate]_vars

(***************************************************************************)
(* SpecAuthz: the predicates of lib/authz.ts applied to every user id,     *)
(* over user tables in which a row is missing or has any role and status   *)
(***************************************************************************)
InitAuthz ==
  /\ users \in [Users -> {NoUser} \cup
                 {User(r, st, Null) : r \in {"ADMIN", "MEMBER"}, st \in Statuses}]
  /\ items = TestItems
  /\ EmptyStore

NextAuthz ==
  \/ \E p \in Procs, u \in Users,
        o \in {"requireUser", "requireActiveUser", "requireAdminUser"} :
       AuthzBegin(p, MaxAuthzCalls, o, u)
  \/ \E p \in Procs : AuthzCheck(p)

SpecAuthz == InitAuthz /\ [][NextAuthz]_vars

(***************************************************************************)
(* SpecGrants: the life of grants, one call at a time: requests by u2 and  *)
(* u3 approved by the owner u1, grants published by u1, revoked by any     *)
(* user, listed by the recipients                                          *)
(***************************************************************************)
GrantInputs ==
  {<<[toUserId |-> "u2", wrappedItemKey |-> "k1"]>>,
   <<[toUserId |-> "u3", wrappedItemKey |-> "k1"]>>}

NextGrants ==
  \/ Tick
  \/ \E u \in {"u2", "u3"} : CreateBegin("p1", MaxGrantCalls, u, "i1", Null)
  \/ \E r \in 1..Len(requests) :
       ApproveBegin("p1", MaxGrantCalls, "u1", r, "k1", 0)
  \/ \E es \in GrantInputs : PublishBegin("p1", MaxGrantCalls, "u1", "i1", es)
  \/ \E u \in Users, g \in 1..(Len(grants) + 1) :
       RevokeBegin("p1", MaxGrantCalls, u, g)
  \/ \E u \in {"u2", "u3"} : ListGrantsBegin("p1", MaxGrantCalls, u)
  \/ \E u \in {"u2", "u3"}, g \in 1..Len(grants) :
       ViewBegin("p1", MaxGrantCalls, u, g)
  \/ \E p \in Procs :
       \/ CreateAuth(p) \/ CreateItem(p) \/ CreateLookup(p)
       \/ CreateInsert(p) \/ CreateAudit(p)
       \/ ApproveAuth(p) \/ ApproveFetch(p) \/ ApproveCommit(p)
       \/ ApproveAudit(p) \/ ApproveAuditGrant(p)
       \/ PublishAuth(p) \/ PublishItem(p) \/ PublishCommit(p)
       \/ RevokeAuth(p) \/ RevokeFetch(p) \/ RevokeCommit(p)
       \/ RevokeAudit(p)
       \/ ListGrantsAuth(p) \/ ListGrantsQuery(p)
       \/ ViewAuth(p) \/ ViewFetch(p) \/ ViewAudit(p)

SpecGrants == Init /\ [][NextGrants]_vars

(***************************************************************************)
(* SpecRevoke: grants published by the owner u1 and revoke calls by any    *)
(* user, two calls served at once                                          *)
(***************************************************************************)
NextRevoke ==
  \/ Tick
  \/ \E p \in Procs :
       \/ \E es \in GrantInputs :
            PublishBegin(p, MaxRevokeCalls, "u1", "i1", es)
       \/ \E u \in Users, g \in 1..(Len(grants) + 1) :
            RevokeBegin(p, MaxRevokeCalls, u, g)
  \/ \E p \in Procs :
       \/ PublishAuth(p) \/ PublishItem(p) \/ PublishCommit(p)
       \/ RevokeAuth(p) \/ RevokeFetch(p) \/ RevokeCommit(p)
       \/ RevokeAudit(p)

SpecRevoke == Init /\ [][NextRevoke]_vars

(***************************************************************************)
(* SpecAdmin: member-approve and member-disable calls by any user on any   *)
(* user, two calls served at once, with two admins and a pending member    *)
(***************************************************************************)
InitAdmin ==
  /\ users = [u \in Users |->
       IF u = "u2" THEN User("MEMBER", "PENDING", Null)
       ELSE User("ADMIN", "ACTIVE", "pk")]
  /\ items = TestItems
  /\ EmptyStore

NextAdmin ==
  \/ \E p \in Procs, u \in Users, target \in Users :
       \/ MemberApproveBegin(p, MaxAdminCalls, u, target)
       \/ MemberDisableBegin(p, MaxAdminCalls, u, target)
  \/ \E p \in Procs :
       \/ MemberApproveAuth(p) \/ MemberApproveFetch(p)
       \/ MemberApproveCommit(p) \/ MemberApproveAudit(p)
       \/ MemberDisableAuth(p) \/ MemberDisableFetch(p)
       \/ MemberDisableCount(p) \/ MemberDisableCommit(p)
       \/ MemberDisableAudit(p)

SpecAdmin == InitAdmin /\ [][NextAdmin]_vars

(***************************************************************************)
(* SpecSignup: signups and key uploads on an empty user table, two calls    *)
(* served at once                                                          *)
(***************************************************************************)
InitSignup ==
  /\ users = [u \in Users |-> NoUser]
  /\ items = [i \in ItemIds \cup {MissingItem} |-> NoItem]
  /\ EmptyStore

NextSignup ==
  \/ Tick
  \/ \E p \in Procs, email \in Users : SignupBegin(p, MaxSignupCalls, email)
  \/ \E p \in Procs, u \in Users, body \in KeyInputs :
       KeyUploadBegin(p, MaxSignupCalls, u, body)
  \/ \E p \in Procs :
       \/ SignupLookup(p) \/ SignupInsert(p) \/ SignupAudit(p)
       \/ KeyUploadFetch(p) \/ KeyUploadCommit(p) \/ KeyUploadAudit(p)

SpecSignup == InitSignup /\ [][NextSignup]_vars

(***************************************************************************)
(* SpecCrypto: an owner encrypts a payload, a recipient makes a key pair,  *)
(* the owner shares the item and both decrypt, with any vault key and with *)
(* stored values that may have been altered on the way                     *)
(***************************************************************************)
InitCrypto ==
  /\ users = [u \in Users |-> User("MEMBER", "ACTIVE", "pk")]
  /\ items = TestItems
  /\ requests = <<>>
  /\ grants = <<>>
  /\ audit = {}
  /\ now = 0
  /\ proc = [p \in Procs |-> Idle]
  /\ calls = 0
  /\ \E payload \in Payloads, vaultKey \in VaultKeys :
       client = [NoClient EXCEPT !.pc = "form", !.payload = payload,
                                 !.vaultKey = vaultKey]
  /\ twin = NoTwin
  /\ files = TestFiles

NextCrypto ==
  \/ EncryptItem
  \/ AlterStored
  \/ OpenItem
  \/ EnsureKeypair
  \/ HandleApprove
  \/ AlterSealed
  \/ DecryptGrant
  \/ UnwrapWith

SpecCrypto == InitCrypto /\ [][NextCrypto]_vars

(***************************************************************************)
(* SpecTwin: two browsers that differ at most in master password and       *)
(* payload sign up, log in, unlock, store an item and publish a key pair   *)
(***************************************************************************)
InitTwin ==
  /\ users = [u \in Users |-> User("MEMBER", "ACTIVE", "pk")]
  /\ items = TestItems
  /\ requests = <<>>
  /\ grants = <<>>
  /\ audit = {}
  /\ now = 0
  /\ proc = [p \in Procs |-> Idle]
  /\ calls = 0
  /\ client = NoClient
  /\ files = TestFiles
  /\ \E password \in [Runs -> MasterPasswords],
        payload \in [Runs -> TwinPayloads] :
       twin = [NoTwin EXCEPT !.pc = "new", !.password = password,
                             !.payload = payload]

NextTwin ==
  \/ TwinSignup
  \/ TwinLogin
  \/ TwinUnlock
  \/ TwinCreateItem
  \/ TwinEnsureKeypair

SpecTwin == InitTwin /\ [][NextTwin]_vars

(***************************************************************************)
(* SpecFiles: file calls served one at a time, by users of every status,   *)
(* on their own and on other users' files and items                        *)
(***************************************************************************)
InitFiles ==
  /\ \E s1 \in Statuses, s2 \in Statuses :
       users = [u \in Users |->
         CASE u = "u1" -> User("ADMIN", s1, "pk")
           [] u = "u2" -> User("MEMBER", s2, "pk")
           [] OTHER -> User("MEMBER", "ACTIVE", "pk")]
  /\ items = [i \in ItemIds \cup {MissingItem} |->
       IF i = "i2" THEN [TestItems[i] EXCEPT !.ownerUserId = "u2"]
       ELSE TestItems[i]]
  /\ EmptyStore

NextFiles ==
  \/ \E u \in Users, f \in FileIds :
       \/ \E o \in FileOps \ {"attach", "detach"} :
            FileBegin("p1", MaxFileCalls, o, u, f, Null)
       \/ \E o \in {"attach", "detach"}, i \in {"i1", "i2", MissingItem} :
            FileBegin("p1", MaxFileCalls, o, u, f, i)
  \/ \E p \in Procs :
       \/ FileAuth(p) \/ FileItem(p) \/ FileFetch(p) \/ FileDisk(p)
       \/ FileCommit(p) \/ FileAudit(p)

SpecFiles == InitFiles /\ [][NextFiles]_vars

(***************************************************************************)
(* SpecPublish: publish-grants calls by any user of any status, two served *)
(* at once, for the item i1 of u1 and for an id that names no item, with   *)
(* bodies whose entries insert or fail                                     *)
(***************************************************************************)
PublishTrials ==
  PublishInputs \cup
  {<<>>,
   <<[toUserId |-> "u3", wrappedItemKey |-> "k1"]>>,
   <<[toUserId |-> "u0", wrappedItemKey |-> "k1"],
     [toUserId |-> "u2", wrappedItemKey |-> "k1"]>>}

NextPublish ==
  \/ Tick
  \/ \E p \in Procs, u \in Users, i \in {"i1", MissingItem},
        es \in PublishTrials :
       PublishBegin(p, MaxPublishCalls, u, i, es)
  \/ \E p \in Procs : PublishAuth(p) \/ PublishItem(p) \/ PublishCommit(p)

SpecPublish == InitGate /\ [][NextPublish]_vars

(***************************************************************************)
(* Claims                                                                  *)
(***************************************************************************)
Terminal == {"APPROVED", "DENIED", "CANCELLED", "EXPIRED"}
CreateOps == {"create", "createLegacy"}
Done(p) == proc[p].pc = "done"

\* C1: in every reachable state at most one request with status PENDING
\* exists for a given (requester, item) pair.
C1_AtMostOnePending ==
  \A a, b \in 1..Len(requests) :
    (/\ a # b
     /\ requests[a].requesterUserId = requests[b].requesterUserId
     /\ requests[a].itemId = requests[b].itemId)
    => ~(requests[a].status = "PENDING" /\ requests[b].status = "PENDING")

\* two create calls for the same pair raced past the lookup: one inserted
\* the row and the other was stopped by the store
C1_Witness ==
  \E p, q \in Procs :
    /\ p # q
    /\ proc[p].op \in CreateOps /\ proc[q].op \in CreateOps
    /\ proc[p].caller = proc[q].caller /\ proc[p].item = proc[q].item
    /\ proc[p].isNew /\ Done(q) /\ proc[q].code = 500

\* C2: a request has status APPROVED if and only if exactly one grant
\* references it through requestId, in every reachable state.
C2_ApprovedIffOneGrant ==
  \A r \in 1..Len(requests) :
    (requests[r].status = "APPROVED") <=>
      (Cardinality({g \in 1..Len(grants) : grants[g].requestId = r}) = 1)

\* C3: once a request is APPROVED, DENIED, CANCELLED or EXPIRED no step of
\* an approve, deny or cancel call changes the row, and no step creates a
\* grant for a request that is not PENDING.
C3_TerminalIsFinal ==
  [][\A r \in 1..Len(requests) :
       /\ requests[r].status \in Terminal => requests'[r] = requests[r]
       /\ (\E g \in 1..Len(grants') :
             g > Len(grants) /\ grants'[g].requestId = r)
          => requests[r].status = "PENDING"]_vars

\* an approve call on the request r that read it as PENDING and has left
\* its transaction behind
ApprovedOrThrew(p, r) ==
  /\ Done(p) /\ proc[p].op = "approve" /\ proc[p].rid = r
  /\ proc[p].code \in {200, 500}

\* C4: of two simultaneous approve calls on the same PENDING request
\* exactly one succeeds and the other is rejected; at most one grant exists
\* per originating request; the rejected call leaves the request row as
\* the winner wrote it.
C4_OneApproveWins ==
  /\ \A a, b \in 1..Len(grants) :
       (a # b /\ grants[a].requestId # NullId)
         => grants[a].requestId # grants[b].requestId
  /\ \A p, q \in Procs, r \in 1..Len(requests) :
       (p # q /\ ApprovedOrThrew(p, r) /\ ApprovedOrThrew(q, r)) =>
         /\ proc[p].code = 200 \/ proc[q].code = 200
         /\ proc[p].code = 500 \/ proc[q].code = 500
         /\ proc[p].code = 200 =>
              (requests[r].status = "APPROVED" => requests[r] = proc[p].rec)

\* C5: a create call that found no PENDING row at its lookup and then
\* loses the insert returns the winner's row, not an error.
C5_LoserReturnsWinner ==
  \A p \in Procs :
    (Done(p) /\ proc[p].op \in CreateOps /\ proc[p].code \notin {400, 403, 404})
      => /\ proc[p].code \in {200, 201}
         /\ proc[p].rid \in 1..Len(requests)
         /\ requests[proc[p].rid].requesterUserId = proc[p].caller
         /\ requests[proc[p].rid].itemId = proc[p].item

\* C6: a create call that finds the PENDING row of an earlier call returns
\* that row with every field as stored, reports it as not new, and leaves
\* it the only PENDING row of the pair.
C6_SecondCreateReturnsFirst ==
  \A p \in Procs :
    (/\ Done(p) /\ proc[p].op = "create" /\ proc[p].code = 200
     /\ requests[proc[p].rid].status = "PENDING")
    => /\ ~proc[p].isNew
       /\ proc[p].rec = requests[proc[p].rid]
       /\ {r \in 1..Len(requests) :
             /\ requests[r].requesterUserId = proc[p].caller
             /\ requests[r].itemId = proc[p].item
             /\ requests[r].status = "PENDING"} = {proc[p].rid}

\* the second call sent another reason than the one stored by the first
C6_Witness ==
  \E p \in Procs :
    /\ Done(p) /\ proc[p].op = "create" /\ proc[p].code = 200
    /\ ~proc[p].isNew
    /\ requests[proc[p].rid].status = "PENDING"
    /\ proc[p].inp # requests[proc[p].rid].reason

\* a step of the handler in slot p
StepOf(p) == proc'[p] # proc[p] /\ proc'[p].pc # "auth"

WrongIdentity(c) ==
  /\ Exists(c.rid)
  /\ \/ c.op \in {"approve", "deny"} /\ c.caller # requests[c.rid].ownerUserId
     \/ c.op = "cancel" /\ c.caller # requests[c.rid].requesterUserId

SharingOps ==
  {"create", "createLegacy", "listOutgoing", "listIncoming", "cancel",
   "approve", "deny", "listFamily", "listFamilyLegacy", "publish",
   "listGrants", "revoke"}

\* C8: a sharing-flow call by a caller whose account status is not ACTIVE
\* is answered Forbidden (403), returns no data and writes nothing.
C8_NonActiveCallerForbidden ==
  /\ \A p \in Procs :
       (Done(p) /\ proc[p].op \in SharingOps /\ proc[p].st # "ACTIVE")
         => /\ proc[p].code = 403
            /\ proc[p].list = {}
            /\ proc[p].rec = NoRequest
            /\ ~proc[p].wrote
  /\ \A p \in Procs :
       (proc[p].op \in SharingOps /\ proc[p].st # "ACTIVE")
         => ~proc[p].wrote

\* the create call of p must be rejected: the caller is not ACTIVE, the
\* item is missing, the caller owns the item, the owner is not ACTIVE, the
\* item is not visible to the family, or the item is not requestable
CreateMustReject(p) ==
  \/ proc[p].st # "ACTIVE"
  \/ ~items[proc[p].item].exists
  \/ items[proc[p].item].ownerUserId = proc[p].caller
  \/ users[items[proc[p].item].ownerUserId].status # "ACTIVE"
  \/ items[proc[p].item].visibility # "FAMILY_METADATA"
  \/ ~items[proc[p].item].requestable

\* C9: a create call is rejected, with no AccessRequest row and no
\* REQUEST_CREATED audit record written, when the caller is not ACTIVE, the
\* item does not exist, the caller owns the item, the owner is not ACTIVE,
\* the visibility is not FAMILY_METADATA, or the item is not requestable.
C9_CreateRejected ==
  \A p \in Procs :
    (proc[p].op \in CreateOps /\ CreateMustReject(p))
      => /\ proc[p].pc \notin {"insert", "audit"}
         /\ ~proc[p].wrote
         /\ proc[p].pc = "done" => proc[p].code \in {400, 403, 404}

\* the requester of the request that the approve call of p names is not
\* ACTIVE or has no public key
RequesterUnfit(p) ==
  LET u == requests[proc[p].rid].requesterUserId IN
    users[u].status # "ACTIVE" \/ users[u].publicKey = Null

\* C10: an approve call is rejected, and writes neither the request nor a
\* grant, when the requester is not ACTIVE or has no public key at the time
\* of the call.
C10_ApproveNeedsFitRequester ==
  \A p \in Procs :
       (proc[p].op = "approve" /\ RequesterUnfit(p))
         => /\ proc[p].pc \notin {"commit", "audit", "audit2"}
            /\ ~proc[p].wrote
            /\ proc[p].pc = "done" => proc[p].code \in {400, 403}

\* C10: the active owner of a PENDING request approved it and was answered
\* Forbidden only because the requester's account is not ACTIVE
C10_Witness ==
  \E p \in Procs :
    /\ Done(p)
    /\ proc[p].op = "approve"
    /\ requests[proc[p].rid].ownerUserId = proc[p].caller
    /\ proc[p].st = "ACTIVE"
    /\ requests[proc[p].rid].status = "PENDING"
    /\ users[requests[proc[p].rid].requesterUserId].status # "ACTIVE"
    /\ users[requests[proc[p].rid].requesterUserId].publicKey # Null
    /\ proc[p].code = 403
    /\ grantOf(proc[p].rid) = {}

\* C11: every grant that has an originating request expires when the
\* request does, exactly one hour after the request's decidedAt, whatever
\* expiresAt the approving client sent.
C11_GrantExpiresOneHourAfterDecision ==
  \A g \in 1..Len(grants) :
    grants[g].requestId # NullId =>
      /\ grants[g].expiresAt = requests[grants[g].requestId].expiresAt
      /\ grants[g].expiresAt =
           requests[grants[g].requestId].decidedAt + GrantLifetime

\* C12: the step in which list-active-grants answers an ACTIVE user returns
\* exactly the stored grants addressed to the caller that are not revoked
\* and expire strictly after the clock value of that step, each once, in
\* ascending order of expiresAt.
C12_ListIsExactlyActiveGrants ==
  [][\A p \in Procs :
       (proc[p].op = "listGrants" /\ proc[p].pc = "query"
          /\ proc'[p].pc = "done")
         => LET out == proc'[p].order IN
            /\ proc'[p].code = 200
            /\ {out[k] : k \in 1..Len(out)} =
                 {g \in 1..Len(grants) :
                    /\ grants[g].toUserId = proc[p].caller
                    /\ grants[g].revokedAt = NullTime
                    /\ grants[g].expiresAt > now}
            /\ \A i, j \in 1..Len(out) :
                 i < j => /\ out[i] # out[j]
                          /\ grants[out[i]].expiresAt <= grants[out[j]].expiresAt
  ]_vars

\* C12: a list call answered with two active grants of different expiry
\* while the store also holds an expired grant addressed to the caller
C12_Witness ==
  \E p \in Procs :
    /\ Done(p) /\ proc[p].op = "listGrants" /\ proc[p].code = 200
    /\ Len(proc[p].order) = 2
    /\ grants[proc[p].order[1]].expiresAt < grants[proc[p].order[2]].expiresAt
    /\ \E g \in 1..Len(grants) :
         /\ grants[g].toUserId = proc[p].caller
         /\ g \notin proc[p].list
         /\ grants[g].revokedAt = NullTime
         /\ grants[g].expiresAt <= now

\* the revoke call in slot p names a missing grant or is not made by the
\* grant's fromUserId
RevokeNotAllowed(c) ==
  \/ c.rid \notin 1..Len(grants)
  \/ grants[c.rid].fromUserId # c.caller

\* C13: revokedAt of a grant is written only by a revoke call of the
\* grant's fromUserId that read the grant as not yet revoked; a revoke call
\* by anyone else or on a missing grant is answered 403 or 404, a revoke
\* call that reads an already revoked grant is answered 400, and none of
\* these changes a grant.
C13_OnlyGranterRevokesOnce ==
  /\ [](\A p \in Procs :
          (Done(p) /\ proc[p].op = "revoke" /\ RevokeNotAllowed(proc[p]))
            => proc[p].code \in {403, 404} /\ ~proc[p].wrote)
  /\ [][/\ \A g \in 1..Len(grants) :
            grants'[g].revokedAt # grants[g].revokedAt
              => \E p \in Procs :
                   /\ StepOf(p) /\ proc[p].op = "revoke"
                   /\ proc[p].pc = "commit"
                   /\ proc[p].rid = g
                   /\ proc[p].caller = grants[g].fromUserId
        /\ \A p \in Procs :
             (StepOf(p) /\ proc[p].op = "revoke" /\ proc[p].pc = "fetch"
                /\ ~RevokeNotAllowed(proc[p])
                /\ grants[proc[p].rid].revokedAt # NullTime)
               => /\ proc'[p].pc = "done" /\ proc'[p].code = 400
                  /\ grants' = grants]_vars

\* C13: the recipient of a grant tried to revoke it and was answered 403,
\* and the granter revoked it
C13_Witness ==
  \E p, q \in Procs :
    /\ Done(p) /\ proc[p].op = "revoke" /\ proc[p].rid \in 1..Len(grants)
    /\ proc[p].caller = grants[proc[p].rid].toUserId
    /\ proc[p].code = 403
    /\ Done(q) /\ proc[q].op = "revoke" /\ proc[q].rid = proc[p].rid
    /\ proc[q].caller = grants[proc[q].rid].fromUserId
    /\ proc[q].code = 200
    /\ grants[proc[q].rid].revokedAt = proc[q].t

\* C14: once revokedAt of a grant is set, no step clears it or changes it
\* to another value.
C14_RevokedAtMonotonic ==
  [][\A g \in 1..Len(grants) :
       grants[g].revokedAt # NullTime
         => grants'[g].revokedAt = grants[g].revokedAt]_vars

\* C15: no step removes a grant or changes the itemId, fromUserId,
\* toUserId, requestId, wrappedItemKeyForRecipient, createdAt or expiresAt
\* of a stored grant; revokedAt is the only field a step writes.
C15_GrantFieldsFrozen ==
  [][/\ Len(grants') >= Len(grants)
     /\ \A g \in 1..Len(grants) :
          [grants'[g] EXCEPT !.revokedAt = grants[g].revokedAt] = grants[g]
  ]_vars

\* C15: a grant made by approve and since revoked by its granter
C15_Witness ==
  \E p \in Procs, g \in 1..Len(grants) :
    /\ Done(p) /\ proc[p].op = "revoke" /\ proc[p].rid = g
    /\ proc[p].code = 200
    /\ grants[g].revokedAt # NullTime
    /\ grants[g].requestId # NullId
    /\ grants[g].expiresAt = requests[grants[g].requestId].expiresAt

\* C16: once the owner's approve of a request has answered 200 the request
\* is APPROVED and a grant addressed to the requester references it; a
\* list-active-grants answer to the requester contains that grant while it
\* is not revoked and the clock is before its expiresAt, and omits it once
\* the owner has revoked it.
C16_ApproveListRevokeList ==
  /\ [](\A p \in Procs :
          (Done(p) /\ proc[p].op = "approve" /\ proc[p].code = 200)
            => /\ requests[proc[p].rid].status = "APPROVED"
               /\ \E g \in 1..Len(grants) :
                    /\ grants[g].requestId = proc[p].rid
                    /\ grants[g].toUserId =
                         requests[proc[p].rid].requesterUserId)
  /\ [][\A p \in Procs, g \in 1..Len(grants) :
          (proc[p].op = "listGrants" /\ proc[p].pc = "query"
             /\ proc'[p].pc = "done"
             /\ grants[g].requestId # NullId
             /\ grants[g].toUserId = proc[p].caller)
            => /\ (grants[g].revokedAt = NullTime /\ now < grants[g].expiresAt)
                    => g \in proc'[p].list
               /\ grants[g].revokedAt # NullTime => g \notin proc'[p].list
       ]_vars

\* C16: u2 requested i1, the owner approved and later revoked the grant,
\* and a list-active-grants answer to u2 before the grant's expiry omits it
C16_Witness ==
  \E p \in Procs, g \in 1..Len(grants) :
    /\ Done(p) /\ proc[p].op = "listGrants" /\ proc[p].code = 200
    /\ grants[g].requestId # NullId
    /\ requests[grants[g].requestId].status = "APPROVED"
    /\ grants[g].toUserId = proc[p].caller
    /\ grants[g].revokedAt # NullTime
    /\ now < grants[g].expiresAt
    /\ g \notin proc[p].list
    /\ AuditEvent(grants[g].fromUserId, "GRANT_REVOKED", "SHARE_GRANT", g)
         \in audit

\* the status that the write of a deciding call gives the request
TargetStatus(o) ==
  CASE o = "approve" -> "APPROVED"
    [] o = "deny" -> "DENIED"
    [] OTHER -> "CANCELLED"

\* C17: the write of an approve, deny or cancel call that finds its request
\* still PENDING (and, for approve, without a grant) gives the request its
\* terminal status, however many earlier requests of the same (requester,
\* item) pair already have that status.
C17_TerminalStatusMayRepeat ==
  [][\A p \in Procs :
       (StepOf(p) /\ proc[p].op \in {"approve", "deny", "cancel"}
          /\ proc[p].pc = "commit"
          /\ requests[proc[p].rid].status = "PENDING"
          /\ grantOf(proc[p].rid) = {})
         => requests'[proc[p].rid].status = TargetStatus(proc[p].op)]_vars

\* C18: no member-disable step takes the number of ACTIVE ADMIN accounts
\* from at least one to zero.
C18_AnActiveAdminRemains ==
  [][activeAdmins >= 1 => activeAdmins' >= 1]_vars

MemberOps == {"memberApprove", "memberDisable"}

ActiveAdmin(u) ==
  users[u].exists /\ users[u].role = "ADMIN" /\ users[u].status = "ACTIVE"

\* C19: in every step, no existing user changes role; a user's status
\* changes only in the update of a member-approve or member-disable call
\* aimed at that user; and a member-approve or member-disable call whose
\* caller is not an ACTIVE ADMIN when the call checks it is answered 403 with
\* the user table unchanged, while only an ACTIVE ADMIN gets past that check.
C19_StatusAndRoleOnlyByActiveAdmin ==
  [][/\ \A u \in Users :
          users[u].exists =>
            /\ users'[u].exists
            /\ users'[u].role = users[u].role
            /\ users'[u].status # users[u].status =>
                 \E p \in Procs :
                   /\ proc[p].op \in MemberOps
                   /\ proc[p].pc = "commit" /\ proc'[p].pc = "audit"
                   /\ proc[p].target = u
     /\ \A p \in Procs :
          (proc[p].op \in MemberOps /\ proc[p].pc = "auth"
             /\ proc'[p] # proc[p]) =>
            IF ActiveAdmin(proc[p].caller)
            THEN proc'[p].pc = "fetch"
            ELSE /\ proc'[p].pc = "done"
                 /\ proc'[p].code = 403
                 /\ ~proc'[p].wrote
                 /\ users' = users]_vars

\* an admin has disabled an account, and a later member call by a DISABLED
\* ADMIN was answered 403 without writing
C19_Witness ==
  /\ \E e \in audit : e.eventType = "MEMBER_DISABLED"
  /\ \E p \in Procs :
       /\ Done(p)
       /\ proc[p].op \in MemberOps
       /\ users[proc[p].caller].role = "ADMIN"
       /\ users[proc[p].caller].status = "DISABLED"
       /\ proc[p].code = 403
       /\ ~proc[p].wrote

\* C20: whenever the user table is not empty, a user created no later than
\* every other has role ADMIN and status ACTIVE, and every other user has
\* role MEMBER and status PENDING.
C20_FirstUserIsAdmin ==
  LET rows == {u \in Users : users[u].exists} IN
    rows # {} =>
      \E f \in rows :
        /\ \A u \in rows : users[f].createdAt <= users[u].createdAt
        /\ users[f].role = "ADMIN" /\ users[f].status = "ACTIVE"
        /\ \A u \in rows \ {f} :
             users[u].role = "MEMBER" /\ users[u].status = "PENDING"

\* C21: in every step, a user who has a publicKey or an encryptedPrivateKey
\* stored keeps both values unchanged.
C21_KeyPairWriteOnce ==
  [][\A u \in Users :
       (users[u].publicKey # Null \/ users[u].encryptedPrivateKey # Null) =>
         /\ users'[u].publicKey = users[u].publicKey
         /\ users'[u].encryptedPrivateKey = users[u].encryptedPrivateKey]_vars

\* C22: a family listing answered to an ACTIVE caller holds only items the
\* caller owns or FAMILY_METADATA items of an ACTIVE owner, and with a
\* non-empty query it holds exactly those of these items whose title or url
\* contains the query.
C22_FamilyListOnlyVisible ==
  \A p \in Procs :
    (/\ Done(p) /\ proc[p].op \in {"listFamily", "listFamilyLegacy"}
     /\ proc[p].code = 200 /\ proc[p].st = "ACTIVE") =>
      /\ proc[p].list \subseteq familyItems(proc[p].caller)
      /\ proc[p].query # <<>> =>
           proc[p].list =
             familyItems(proc[p].caller) \cap searchMatches(proc[p].query)

\* C23: every step that changes a request, grant or user row belongs to a
\* call that is then marked as having written, and no call that has written
\* ends with an error status: a call answered with an error has left the
\* three tables as they were.
C23_ErrorLeavesRowsUnchanged ==
  [][/\ (requests' # requests \/ grants' # grants \/ users' # users) =>
          \E p \in Procs :
            proc[p].pc \notin {"idle", "done"} /\ proc'[p].wrote
     /\ \A p \in Procs :
          (proc'[p].pc = "done" /\ proc'[p].code >= 400) => ~proc'[p].wrote]_vars

\* the audit records that the committed transition of the call in slot p
\* calls for
ExpectedAudit(p) ==
  LET c == proc[p] IN
    CASE c.op \in CreateOps ->
           {AuditEvent(c.caller, "REQUEST_CREATED", "ACCESS_REQUEST", c.rid)}
      [] c.op = "approve" ->
           {AuditEvent(c.caller, "REQUEST_APPROVED", "ACCESS_REQUEST", c.rid)}
           \cup {AuditEvent(c.caller, "GRANT_CREATED", "SHARE_GRANT", g) :
                   g \in grantOf(c.rid)}
      [] c.op = "deny" ->
           {AuditEvent(c.caller, "REQUEST_DENIED", "ACCESS_REQUEST", c.rid)}
      [] c.op = "cancel" ->
           {AuditEvent(c.caller, "REQUEST_CANCELLED", "ACCESS_REQUEST", c.rid)}
      [] c.op = "revoke" ->
           {AuditEvent(c.caller, "GRANT_REVOKED", "SHARE_GRANT", c.rid)}
      [] OTHER -> {}

\* C24: a call that has committed its transition (a new request, approve,
\* deny, cancel, revoke) eventually responds with the matching audit
\* records stored, and no call is finished with its transition committed
\* and a record missing.
C24_TransitionIsAudited ==
  /\ \A p \in Procs :
       proc[p].wrote ~> (Done(p) /\ ExpectedAudit(p) \subseteq audit)
  /\ [](\A p \in Procs :
         (Done(p) /\ proc[p].wrote) => ExpectedAudit(p) \subseteq audit)

\* C25: a step of a deny or cancel call leaves the grant table and the
\* number of requests unchanged, changes no request but its own, and on that
\* one leaves itemId, requesterUserId, ownerUserId, reason, createdAt and
\* expiresAt as they were; a cancel also leaves decisionNote.
C25_DenyCancelFrame ==
  [][\A p \in Procs :
       (proc[p].op \in {"deny", "cancel"} /\ proc'[p] # proc[p]) =>
         /\ grants' = grants
         /\ Len(requests') = Len(requests)
         /\ \A r \in 1..Len(requests) :
              /\ r # proc[p].rid => requests'[r] = requests[r]
              /\ requests'[r].itemId = requests[r].itemId
              /\ requests'[r].requesterUserId = requests[r].requesterUserId
              /\ requests'[r].ownerUserId = requests[r].ownerUserId
              /\ requests'[r].reason = requests[r].reason
              /\ requests'[r].createdAt = requests[r].createdAt
              /\ requests'[r].expiresAt = requests[r].expiresAt
              /\ proc[p].op = "cancel" =>
                   requests'[r].decisionNote = requests[r].decisionNote]_vars

\* a deny with a note has been answered 200 on a request that carries a
\* reason
C25_Witness ==
  \E p \in Procs :
    /\ Done(p) /\ proc[p].op = "deny" /\ proc[p].code = 200
    /\ requests[proc[p].rid].status = "DENIED"
    /\ requests[proc[p].rid].decisionNote = "n1"
    /\ requests[proc[p].rid].reason # Null

\* C26: in every reachable state each grant references a request, and that
\* request has status APPROVED.
C26_GrantHasApprovedRequest ==
  \A g \in 1..Len(grants) :
    /\ Exists(grants[g].requestId)
    /\ requests[grants[g].requestId].status = "APPROVED"

\* C27: in every reachable state each request names an existing item and
\* its ownerUserId is that item's owner; and no step changes the owner of an
\* existing item.
C27_RequestOwnerIsItemOwner ==
  /\ [](\A r \in 1..Len(requests) :
          /\ items[requests[r].itemId].exists
          /\ requests[r].ownerUserId = items[requests[r].itemId].ownerUserId)
  /\ [][\A i \in ItemIds :
          items[i].exists =>
            /\ items'[i].exists
            /\ items'[i].ownerUserId = items[i].ownerUserId]_vars

\* a request for an item that u1 does not own has been decided
C27_Witness ==
  \E r \in 1..Len(requests) :
    /\ requests[r].ownerUserId # "u1"
    /\ requests[r].ownerUserId = items[requests[r].itemId].ownerUserId
    /\ requests[r].status \in Terminal

\* C28: no request ever has status EXPIRED; a step in which the clock
\* advances changes no request and no grant; a stored grant changes only in
\* the update of a revoke call that names it and a stored request only in
\* the update of an approve, deny or cancel call that names it; and the
\* grants a listing returns are those addressed to the caller whose
\* revokedAt is unset and whose expiresAt lies after the clock at that read.
C28_ExpiryNeverWritten ==
  /\ [](\A r \in 1..Len(requests) : requests[r].status # "EXPIRED")
  /\ [][/\ now' # now => (requests' = requests /\ grants' = grants)
        /\ \A g \in 1..Len(grants) :
             grants'[g] # grants[g] =>
               \E p \in Procs :
                 /\ proc[p].op = "revoke" /\ proc[p].pc = "commit"
                 /\ proc[p].rid = g /\ proc'[p] # proc[p]
        /\ \A r \in 1..Len(requests) :
             requests'[r] # requests[r] =>
               \E p \in Procs :
                 /\ proc[p].op \in {"approve", "deny", "cancel"}
                 /\ proc[p].pc = "commit"
                 /\ proc[p].rid = r /\ proc'[p] # proc[p]
        /\ \A p \in Procs :
             (proc[p].op = "listGrants" /\ proc[p].pc = "query"
                /\ proc'[p].pc = "done") =>
               \A g \in 1..Len(grants) :
                 grants[g].toUserId = proc[p].caller =>
                   (g \in proc'[p].list <=>
                      (grants[g].revokedAt = NullTime
                         /\ grants[g].expiresAt > now))]_vars

\* a grant's expiresAt has passed: the grant is stored unrevoked, its request
\* is still APPROVED, and a listing answered to the recipient leaves it out
C28_Witness ==
  \E g \in 1..Len(grants), p \in Procs :
    /\ grants[g].expiresAt <= now
    /\ grants[g].revokedAt = NullTime
    /\ Exists(grants[g].requestId)
    /\ requests[grants[g].requestId].status = "APPROVED"
    /\ requests[grants[g].requestId].expiresAt <= now
    /\ Done(p) /\ proc[p].op = "listGrants" /\ proc[p].code = 200
    /\ proc[p].caller = grants[g].toUserId
    /\ g \notin proc[p].list

\* C29 as stated: applied to any user id, requireUser throws 404 when the
\* row is missing; requireActiveUser throws 404 when the row is missing and
\* 403 when its status is not ACTIVE; requireAdminUser throws 403 unless the
\* status is ACTIVE and the role is ADMIN; each returns the user otherwise.
C29_AuthzDecisionsAsStated ==
  \A p \in Procs :
    Done(p) =>
      LET u == users[proc[p].caller] IN
        CASE proc[p].op = "requireUser" ->
               proc[p].code = IF ~u.exists THEN 404 ELSE 0
          [] proc[p].op = "requireActiveUser" ->
               proc[p].code = IF ~u.exists THEN 404
                              ELSE IF u.status # "ACTIVE" THEN 403 ELSE 0
          [] proc[p].op = "requireAdminUser" ->
               proc[p].code = IF u.status = "ACTIVE" /\ u.role = "ADMIN"
                              THEN 0 ELSE 403
          [] OTHER -> TRUE

\* C29, amended: as stated, except that requireAdminUser throws 404 when the
\* row is missing, and 403 for an existing user unless the status is ACTIVE
\* and the role is ADMIN.
C29_AuthzDecisions ==
  \A p \in Procs :
    Done(p) =>
      LET u == users[proc[p].caller] IN
        CASE proc[p].op = "requireUser" ->
               proc[p].code = IF ~u.exists THEN 404 ELSE 0
          [] proc[p].op = "requireActiveUser" ->
               proc[p].code = IF ~u.exists THEN 404
                              ELSE IF u.status # "ACTIVE" THEN 403 ELSE 0
          [] proc[p].op = "requireAdminUser" ->
               proc[p].code = IF ~u.exists THEN 404
                              ELSE IF u.status = "ACTIVE" /\ u.role = "ADMIN"
                              THEN 0 ELSE 403
          [] OTHER -> TRUE

\* requireAdminUser has been applied to the id of a missing user and has
\* thrown 404, in a table that holds an ACTIVE ADMIN
C29_Witness ==
  \E p \in Procs :
    /\ Done(p) /\ proc[p].op = "requireAdminUser"
    /\ ~users[proc[p].caller].exists
    /\ proc[p].code = 404
    /\ activeAdmins >= 1

\* C30: no entry of an answered family listing has a wrappedItemKey,
\* encryptedPayload or cryptoMeta field; an answered grant listing has one
\* entry per listed grant, whose item carries the stored encryptedPayload and
\* cryptoMeta and no wrappedItemKey, and whose wrappedItemKeyForRecipient is
\* the key stored in the grant; no entry has any further field that could
\* hold a decrypted value.
C30_ListingsExposeOnlySealedData ==
  \A p \in Procs :
    (Done(p) /\ proc[p].code = 200) =>
      /\ proc[p].op \in {"listFamily", "listFamilyLegacy"} =>
           \A row \in proc[p].rows :
             /\ DOMAIN row \cap
                  {"wrappedItemKey", "encryptedPayload", "cryptoMeta"} = {}
             /\ DOMAIN row \subseteq
                  {"title", "url", "visibility", "requestable", "ownerUserId"}
      /\ proc[p].op = "listGrants" =>
           /\ {e.id : e \in proc[p].rows} = proc[p].list
           /\ \A e \in proc[p].rows :
                /\ DOMAIN e = {"id", "wrappedItemKeyForRecipient", "expiresAt",
                               "createdAt", "item", "fromUser"}
                /\ e.wrappedItemKeyForRecipient =
                     grants[e.id].wrappedItemKeyForRecipient
                /\ DOMAIN e.item =
                     {"title", "url", "encryptedPayload", "cryptoMeta"}
                /\ e.item.encryptedPayload =
                     items[grants[e.id].itemId].encryptedPayload
                /\ e.item.cryptoMeta = items[grants[e.id].itemId].cryptoMeta

\* a grant listing has been answered with an entry
C30_Witness ==
  \E p \in Procs :
    /\ Done(p) /\ proc[p].op = "listGrants" /\ proc[p].code = 200
    /\ \E e \in proc[p].rows :
         /\ e.item.encryptedPayload # Null
         /\ e.wrappedItemKeyForRecipient # Null

\* C31: an item opened under the vault key it was encrypted with, its stored
\* bundle being the one encryptVaultItem produced, decrypts to the payload
\* that was encrypted, for every payload, vault key, item key and nonces.
C31_ItemRoundTrip ==
  (client.pc = "opened" /\ client.key = client.vaultKey
     /\ client.bundle = client.sent) =>
    (client.out.ok /\ client.out.val = client.payload)

\* a payload whose password holds a backslash and a quote and whose notes
\* hold a two-byte character has been encrypted and opened again
C31_Witness ==
  /\ client.pc = "opened"
  /\ client.key = client.vaultKey
  /\ client.bundle = client.sent
  /\ client.payload.password = <<"\\", "\"">>
  /\ client.payload.notes = <<"eacute">>
  /\ client.out.ok
  /\ client.out.val = client.payload
  /\ client.bundle.cryptoMeta.dekNonce # client.bundle.cryptoMeta.payloadNonce


\* C32: unwrapItemKeyFromGrant applied to the key wrapItemKeyForRecipient
\* sealed, the public key it was sealed to and a private key returns the
\* sealed item key when the private key is the one of that public key, and
\* throws, returning no key, when it is another private key.
C32_SealRoundTrip ==
  (client.gpc = "unsealed" /\ client.sealed = client.sealedAs) =>
    LET dek == from_base64(client.sealedAs).boxed
    IN IF publicKeyOf(client.tried) = from_base64(client.keyInfo.publicKey)
       THEN client.itemDek.ok /\ client.itemDek.val = dek
       ELSE ~client.itemDek.ok /\ client.itemDek.val = <<>>

\* the key of an item was sealed to a recipient and unsealed with the
\* recipient's private key
C32_Witness ==
  /\ client.gpc = "unsealed"
  /\ client.sealed = client.sealedAs
  /\ client.tried = client.privateKey
  /\ client.itemDek.ok
  /\ client.itemDek.val \in Deks
  /\ client.itemDek.val = from_base64(client.sent.wrappedItemKey).boxed


\* C33: an item opened under another vault key than its own, or from a
\* stored bundle of which a ciphertext byte or a nonce differs from what
\* encryptVaultItem produced, and a grant decrypted under another vault key
\* than the recipient's, from an altered sealed key, or from an altered
\* payload ciphertext or payload nonce, end in a throw that returns nothing;
\* every decryption either throws or returns the whole original payload.
C33_DecryptionFailsClosed ==
  /\ client.pc = "opened" =>
       /\ (client.key # client.vaultKey \/ client.bundle # client.sent) =>
            (~client.out.ok /\ client.out.val = NoPayload)
       /\ client.out.ok => client.out.val = client.payload
       /\ ~client.out.ok => client.out.val = NoPayload
  /\ client.gpc = "read" =>
       /\ (\/ client.gkey # client.recipientKey
           \/ client.sealed # client.sealedAs
           \/ client.bundle.encryptedPayload # client.sent.encryptedPayload
           \/ client.bundle.cryptoMeta.payloadNonce #
                client.sent.cryptoMeta.payloadNonce) =>
            (~client.gout.ok /\ client.gout.val = NoPayload)
       /\ client.gout.ok => client.gout.val = client.payload
       /\ ~client.gout.ok => client.gout.val = NoPayload

\* an item whose payload ciphertext was altered has been opened under its
\* own vault key, and the call threw
C33_Witness ==
  /\ client.pc = "opened"
  /\ client.key = client.vaultKey
  /\ from_base64(client.bundle.encryptedPayload).altered
  /\ ~client.out.ok


\* C38: a recipient who decrypts a grant under the vault key that encrypted
\* the private key, with the sealed key as handleApprove posted it and the
\* payload ciphertext and payload nonce as encryptVaultItem produced them,
\* obtains the payload the owner encrypted.
C38_SharePathPreservesPayload ==
  (/\ client.gpc = "read"
   /\ client.gkey = client.recipientKey
   /\ client.sealed = client.sealedAs
   /\ client.bundle.encryptedPayload = client.sent.encryptedPayload
   /\ client.bundle.cryptoMeta.payloadNonce =
        client.sent.cryptoMeta.payloadNonce) =>
    (client.gout.ok /\ client.gout.val = client.payload)

\* the recipient has decrypted a shared payload that holds a backslash, a
\* quote and a two-byte character, the two vault keys being different
C38_Witness ==
  /\ client.gpc = "read"
  /\ client.gkey = client.recipientKey
  /\ client.recipientKey # client.vaultKey
  /\ client.sealed = client.sealedAs
  /\ client.bundle = client.sent
  /\ client.payload.password = <<"\"", "\\">>
  /\ client.payload.notes = <<"eacute">>
  /\ client.gout.ok
  /\ client.gout.val = client.payload


\* C34: what the server has received and stored of browser A equals what it
\* has of browser B once every ciphertext, sealed or encrypted key and
\* password hash is replaced by an opaque token, whatever master passwords
\* and payloads the two browsers were given.
C34_ServerViewFreeOfSecrets ==
  LET opaque(view) ==
        [view EXCEPT !.user.passwordHash = "opaque",
                     !.vault.wrappedItemKey = "opaque",
                     !.vault.encryptedPayload = "opaque",
                     !.keys.encryptedPrivateKey = "opaque"]
  IN opaque(twin.seen.A) = opaque(twin.seen.B)


\* the caller of file call c is not ACTIVE, does not own the file, or does
\* not own the item of an attachment call
FileCallerUnfit(c) ==
  \/ c.st # "ACTIVE"
  \/ files[c.file].exists /\ files[c.file].ownerUserId # c.caller
  \/ /\ c.op \in {"attach", "detach"}
     /\ items[c.item].exists
     /\ items[c.item].ownerUserId # c.caller

\* C35: a file call answered 200 was made by an ACTIVE caller who owns the
\* file and, for attach and detach, the item; a call by a caller who is not
\* ACTIVE, not the file's owner or not the item's owner is answered 403 or
\* 404 with no data, and none of its steps changes a file row or stored
\* bytes.
C35_FileOpsOwnerOnly ==
  /\ [](\A p \in Procs :
          (Done(p) /\ proc[p].op \in FileOps /\ proc[p].code = 200) =>
            /\ proc[p].st = "ACTIVE"
            /\ proc[p].fileOwner = proc[p].caller
            /\ proc[p].op \in {"attach", "detach"} =>
                 items[proc[p].item].ownerUserId = proc[p].caller)
  /\ [](\A p \in Procs :
          (Done(p) /\ proc[p].op \in FileOps /\ FileCallerUnfit(proc[p])) =>
            /\ proc[p].code \in {403, 404}
            /\ ~proc[p].wrote
            /\ proc[p].rows = {})
  /\ [][\A p \in Procs :
          (StepOf(p) /\ proc'[p].op \in FileOps /\ FileCallerUnfit(proc'[p]))
            => files' = files]_vars

\* after the owner of f2 uploaded its bytes, the ACTIVE user u2 tried to
\* delete u1's file f1 and was answered 403, the file being as it was
C35_Witness ==
  \E p \in Procs :
    /\ Done(p) /\ proc[p].op = "delete" /\ proc[p].file = "f1"
    /\ proc[p].caller = "u2" /\ proc[p].st = "ACTIVE"
    /\ proc[p].code = 403
    /\ files["f1"] = TestFiles["f1"]
    /\ files["f2"].stored = "bytes1"



(***************************************************************************)
(* C36: in every reachable state each ShareGrant has fromUserId equal to   *)
(* the owner of its item, and each grant created by approve (the grants    *)
(* that carry a requestId) has itemId, fromUserId and toUserId equal to    *)
(* the itemId, ownerUserId and requesterUserId of the request it names.    *)
(***************************************************************************)
C36_GrantFromOwner ==
  \A g \in 1..Len(grants) :
    /\ items[grants[g].itemId].exists
    /\ grants[g].fromUserId = items[grants[g].itemId].ownerUserId
    /\ grants[g].requestId # NullId =>
         /\ Exists(grants[g].requestId)
         /\ grants[g].itemId = requests[grants[g].requestId].itemId
         /\ grants[g].fromUserId = requests[grants[g].requestId].ownerUserId
         /\ grants[g].toUserId = requests[grants[g].requestId].requesterUserId

\* an item of u2 with a grant made by approve and a published grant
C36_Witness ==
  /\ \E g \in 1..Len(grants) :
       grants[g].requestId # NullId /\ grants[g].fromUserId = "u2"
  /\ \E g \in 1..Len(grants) :
       grants[g].requestId = NullId /\ grants[g].fromUserId = "u2"


(***************************************************************************)
(* C37: with a non-decreasing clock, a grant that is inactive at some      *)
(* point (revokedAt set, or expiresAt <= now) is never active again: once  *)
(* list-active-grants has omitted a grant for its recipient because it     *)
(* was revoked or expired, no later call returns it.                       *)
(***************************************************************************)
GrantInactive(g) ==
  grants[g].revokedAt # NullTime \/ grants[g].expiresAt <= now

\* the answer just given to the recipient of the grant g left it out
GrantOmitted(g) ==
  /\ Done("p1") /\ proc["p1"].op = "listGrants" /\ proc["p1"].code = 200
  /\ g \in 1..Len(grants) /\ proc["p1"].caller = grants[g].toUserId
  /\ g \notin proc["p1"].list

\* the answer just given holds the grant g
GrantReturned(g) ==
  /\ Done("p1") /\ proc["p1"].op = "listGrants" /\ proc["p1"].code = 200
  /\ g \in proc["p1"].list

C37_InactiveGrantStaysInactive ==
  /\ [][now' >= now /\
         \A g \in 1..Len(grants) :
           GrantInactive(g) => g \in 1..Len(grants') /\ GrantInactive(g)']_vars
  /\ \A g \in 1..MaxGrantCalls :
       [](GrantOmitted(g) => [](~GrantReturned(g)))

\* a list-active-grants answer to the recipient leaves out a grant that was
\* revoked before its expiry
C37_Witness ==
  \E g \in 1..Len(grants) :
    /\ GrantOmitted(g)
    /\ grants[g].revokedAt # NullTime
    /\ grants[g].expiresAt > now


(***************************************************************************)
(* C39: a publish-grants call that fails (the caller is not the item's     *)
(* owner, the item does not exist, or any single submitted grant entry     *)
(* fails to insert) creates no grant at all: no step of a call that is     *)
(* not answered with success changes the grant table.                      *)
(***************************************************************************)
C39_FailedPublishCreatesNothing ==
  [][\A p \in Procs :
       (/\ proc'[p] # proc[p]
        /\ proc'[p].op = "publish"
        /\ ~(Done(p)' /\ proc'[p].code = 200))
       => grants' = grants]_vars

\* the owner's call was answered 500 because its second entry failed to
\* insert although its first would have, after an earlier call had succeeded
C39_Witness ==
  \E p \in Procs :
    /\ Done(p) /\ proc[p].op = "publish" /\ proc[p].code = 500
    /\ publishChecks(proc[p].caller, proc[p].item) = 0
    /\ Len(proc[p].entries) = 2
    /\ entryInserts(proc[p].entries[1])
    /\ ~entryInserts(proc[p].entries[2])
    /\ Len(grants) > 0

====
